---- MODULE Spec2Model ----
(***************************************************************************)
(* Model of the BIP9 versionbits automaton of src/versionbits.cpp: the     *)
(* block index (blocks linked by pprev), the per-bit threshold caches of   *)
(* VersionBitsCache, and the calls VersionBitsState,                       *)
(* VersionBitsStateSinceHeight and VersionBitsCache::Clear.                *)
(***************************************************************************)
EXTENDS Integers, Sequences, FiniteSets, TLC

VARIABLES
    mapBlockIndex,   \* the block index: block id -> [pprev, nHeight, nVersion, nTime]
    vDeployments,    \* the deployment descriptors the node is configured with
    caches,          \* VersionBitsCache::caches: bit -> (block pointer -> ThresholdState)
    ret,             \* the last call: its name, arguments and returned value
    db,              \* CCoinsViewDB::db, the chainstate database: key -> value
    blocktree,       \* the CBlockTreeDB database: key -> value
    batch,           \* the batched write in progress: its call and the batches to commit
    pcursor,         \* the iteration in progress: its call, the keys its iterator has
                     \* still to visit, the result so far, and whether the interruption
                     \* of its thread is requested
    setStakeSeen     \* the stakes seen: pairs (prevoutStake, nStakeTime)

vars == <<mapBlockIndex, vDeployments, caches, ret, db, blocktree, batch, pcursor,
          setStakeSeen>>

\* the databases, the batched write and the iteration in progress
dbVars == <<db, blocktree, batch, pcursor>>

----------------------------------------------------------------------------
\* Bounds and input domains

\* blocks a chain may hold
MaxBlocks == 4

\* block timestamps (nTime): each deployment below places its nStartTime and
\* nTimeout around these two values
BlockTimes == {1, 2}

\* version bits that have a cache: bits 0..MaxBits-1 of the
\* MAX_VERSION_BITS_DEPLOYMENTS entries of VersionBitsCache::caches
MaxBits == 2

\* blocks of the chain of the activation scenario (four periods of ten blocks)
ScenarioBlocks == 40

\* entries of the vector passed to a batched index update
MaxVect == 2

\* blocks a block index with forks may hold
ForkBlocks == 4

\* the null block pointer (the parent of the genesis block)
NULL == 0

----------------------------------------------------------------------------
\* Program constants

VERSIONBITS_NUM_BITS == 29

\* 0x20000000
VERSIONBITS_TOP_BITS == 536870912

ALWAYS_ACTIVE == -1

nMedianTimeSpan == 11

DEFINED == "DEFINED"

STARTED == "STARTED"

LOCKED_IN == "LOCKED_IN"

ACTIVE == "ACTIVE"

FAILED == "FAILED"

ThresholdState == {DEFINED, STARTED, LOCKED_IN, ACTIVE, FAILED}

\* nVersion values a block may carry: versionbits format signalling bit 0, and
\* bit 0 set without the versionbits top bits (no signal)
BlockVersions == {VERSIONBITS_TOP_BITS + 1, 1}

\* deployments (nStartTime < nTimeout in each). With block times 1 and 2:
\* A starts at time 2 and never times out, two-block period, both must signal
DeploymentA == [bit |-> 0, nStartTime |-> 2, nTimeout |-> 3, nPeriod |-> 2, threshold |-> 2]

\* B is started from the first block and times out at time 2, one-block period
DeploymentB == [bit |-> 0, nStartTime |-> 1, nTimeout |-> 2, nPeriod |-> 1, threshold |-> 1]

\* C is always active
DeploymentC == [bit |-> 1, nStartTime |-> ALWAYS_ACTIVE, nTimeout |-> 3, nPeriod |-> 2, threshold |-> 2]

\* D starts at time 2 and never times out, one-block period
DeploymentD == [bit |-> 0, nStartTime |-> 2, nTimeout |-> 3, nPeriod |-> 1, threshold |-> 1]

\* E is started from the first block and times out at time 2, two-block period,
\* one signalling block is enough
DeploymentE == [bit |-> 0, nStartTime |-> 1, nTimeout |-> 2, nPeriod |-> 2, threshold |-> 1]

\* F is E on bit 1
DeploymentF == [bit |-> 1, nStartTime |-> 1, nTimeout |-> 2, nPeriod |-> 2, threshold |-> 1]

\* S is the deployment of the activation scenario (spec 8, scenario 3)
DeploymentS == [bit |-> 0, nStartTime |-> 100, nTimeout |-> 1000, nPeriod |-> 10, threshold |-> 8]

Deployments == {DeploymentA, DeploymentB, DeploymentC, DeploymentD, DeploymentE}

\* configurations of two deployments: A and D use the same bit, A and F do not
DeploymentPairs == {{DeploymentA, DeploymentD}, {DeploymentA, DeploymentF}}

----------------------------------------------------------------------------
\* CBlockIndex

Blocks == 1..Len(mapBlockIndex)

BlockPtrs == {NULL} \cup Blocks

nHeight(p) == mapBlockIndex[p].nHeight

pprev(p) == mapBlockIndex[p].pprev

RECURSIVE GetAncestor(_, _)
\* CBlockIndex::GetAncestor: the ancestor of p at the given height, null when
\* the height is negative or above p's
GetAncestor(p, height) ==
    IF height > nHeight(p) \/ height < 0 THEN NULL
    ELSE IF nHeight(p) = height THEN p
    ELSE GetAncestor(pprev(p), height)

RECURSIVE BlockTimesBack(_, _)
\* the timestamps of p and its ancestors, at most k of them
BlockTimesBack(p, k) ==
    IF p = NULL \/ k = 0 THEN <<>>
    ELSE <<mapBlockIndex[p].nTime>> \o BlockTimesBack(pprev(p), k - 1)

\* CBlockIndex::GetMedianTimePast: the middle element, in sorted order, of the
\* timestamps of the last nMedianTimeSpan blocks ending at p
GetMedianTimePast(p) ==
    LET ts == BlockTimesBack(p, nMedianTimeSpan)
        mid == Len(ts) \div 2
        Below(x) == Cardinality({i \in DOMAIN ts : ts[i] < x})
        UpTo(x) == Cardinality({i \in DOMAIN ts : ts[i] <= x})
    IN CHOOSE x \in {ts[i] : i \in DOMAIN ts} : Below(x) <= mid /\ mid < UpTo(x)

----------------------------------------------------------------------------
\* VersionBitsConditionChecker

RECURSIVE Pow2(_)
Pow2(n) == IF n = 0 THEN 1 ELSE 2 * Pow2(n - 1)

\* ((uint32_t)1) << bip.bit
Mask(bip) == Pow2(bip.bit)

\* (nVersion & VERSIONBITS_TOP_MASK) == VERSIONBITS_TOP_BITS && (nVersion & Mask()) != 0
Condition(p, bip) ==
    LET v == mapBlockIndex[p].nVersion
    IN /\ (v \div Pow2(VERSIONBITS_NUM_BITS)) * Pow2(VERSIONBITS_NUM_BITS) = VERSIONBITS_TOP_BITS
       /\ (v \div Mask(bip)) % 2 = 1

----------------------------------------------------------------------------
\* AbstractThresholdConditionChecker

\* AlignedAncestor without the alignment: the walk starts at pindexPrev itself
AlignedAncestorNone(p, bip) == p

\* AlignedAncestor with nHeight % nPeriod in place of (nHeight + 1) % nPeriod
AlignedAncestorOffByOne(p, bip) ==
    IF p = NULL THEN NULL
    ELSE GetAncestor(p, nHeight(p) - (nHeight(p) % bip.nPeriod))

\* pindex->GetAncestor(pindex->nHeight - ((pindex->nHeight + 1) % nPeriod)): the
\* last block of the period before pindex's, null for the null pointer
AlignedAncestor(p, bip) ==
    IF p = NULL THEN NULL
    ELSE GetAncestor(p, nHeight(p) - ((nHeight(p) + 1) % bip.nPeriod))

RECURSIVE WalkBackByHeight(_, _, _, _)
\* WalkBack on a cache that is keyed by the height of a block, not by the
\* block: the walk stops at a block when the cache holds a block of its height
WalkBackByHeight(p, cache, bip, vToCompute) ==
    IF p \in DOMAIN cache
    THEN [pindexPrev |-> p, cache |-> cache, vToCompute |-> vToCompute]
    ELSE IF p = NULL
    THEN [pindexPrev |-> p, cache |-> (NULL :> DEFINED) @@ cache, vToCompute |-> vToCompute]
    ELSE IF \E k \in DOMAIN cache \ {NULL} : nHeight(k) = nHeight(p)
    THEN [pindexPrev |-> CHOOSE k \in DOMAIN cache \ {NULL} : nHeight(k) = nHeight(p),
          cache |-> cache, vToCompute |-> vToCompute]
    ELSE IF GetMedianTimePast(p) < bip.nStartTime
    THEN [pindexPrev |-> p, cache |-> (p :> DEFINED) @@ cache, vToCompute |-> vToCompute]
    ELSE WalkBackByHeight(GetAncestor(p, nHeight(p) - bip.nPeriod), cache, bip,
                          Append(vToCompute, p))

RECURSIVE WalkBackPastStart(_, _, _, _)
\* WalkBack without the stop at a block before the start time: the walk goes
\* on to a cached pointer or to null
WalkBackPastStart(p, cache, bip, vToCompute) ==
    IF p \in DOMAIN cache
    THEN [pindexPrev |-> p, cache |-> cache, vToCompute |-> vToCompute]
    ELSE IF p = NULL
    THEN [pindexPrev |-> p, cache |-> (NULL :> DEFINED) @@ cache, vToCompute |-> vToCompute]
    ELSE WalkBackPastStart(GetAncestor(p, nHeight(p) - bip.nPeriod), cache, bip,
                           Append(vToCompute, p))

RECURSIVE WalkBack(_, _, _, _)
\* the backward walk in steps of nPeriod: stops at a cached pointer, at null or
\* at a block before the start time (both cached as DEFINED); the blocks passed
\* on the way are pushed on vToCompute
WalkBack(p, cache, bip, vToCompute) ==
    IF p \in DOMAIN cache
    THEN [pindexPrev |-> p, cache |-> cache, vToCompute |-> vToCompute]
    ELSE IF p = NULL
    THEN [pindexPrev |-> p, cache |-> (NULL :> DEFINED) @@ cache, vToCompute |-> vToCompute]
    ELSE IF GetMedianTimePast(p) < bip.nStartTime
    THEN [pindexPrev |-> p, cache |-> (p :> DEFINED) @@ cache, vToCompute |-> vToCompute]
    ELSE WalkBack(GetAncestor(p, nHeight(p) - bip.nPeriod), cache, bip, Append(vToCompute, p))

RECURSIVE CountConditionShort(_, _, _)
\* CountCondition with the loop bound i < nPeriod - 1: the oldest block of the
\* period is not counted
CountConditionShort(pindexCount, i, bip) ==
    IF i <= 1 THEN 0
    ELSE (IF Condition(pindexCount, bip) THEN 1 ELSE 0)
         + CountConditionShort(pprev(pindexCount), i - 1, bip)

RECURSIVE CountCondition(_, _, _)
\* the counting loop: Condition over i blocks, from pindexCount back along pprev
CountCondition(pindexCount, i, bip) ==
    IF i = 0 THEN 0
    ELSE (IF Condition(pindexCount, bip) THEN 1 ELSE 0)
         + CountCondition(pprev(pindexCount), i - 1, bip)

\* StateNext with the timeout test hoisted out of the switch: it also applies to
\* LOCKED_IN, ACTIVE and FAILED
StateNextTimeoutAlways(state, p, bip) ==
    IF GetMedianTimePast(p) >= bip.nTimeout THEN FAILED
    ELSE CASE state = DEFINED ->
                IF GetMedianTimePast(p) >= bip.nStartTime THEN STARTED ELSE DEFINED
           [] state = STARTED ->
                IF CountCondition(p, bip.nPeriod, bip) >= bip.threshold THEN LOCKED_IN
                ELSE STARTED
           [] state = LOCKED_IN -> ACTIVE
           [] OTHER -> state

\* StateNext with count > nThreshold in place of count >= nThreshold
StateNextStrictThreshold(state, p, bip) ==
    CASE state = DEFINED ->
            IF GetMedianTimePast(p) >= bip.nTimeout THEN FAILED
            ELSE IF GetMedianTimePast(p) >= bip.nStartTime THEN STARTED
            ELSE DEFINED
      [] state = STARTED ->
            IF GetMedianTimePast(p) >= bip.nTimeout THEN FAILED
            ELSE IF CountCondition(p, bip.nPeriod, bip) > bip.threshold THEN LOCKED_IN
            ELSE STARTED
      [] state = LOCKED_IN -> ACTIVE
      [] OTHER -> state

\* StateNext with the count tested before the timeout in STARTED
StateNextLockInFirst(state, p, bip) ==
    CASE state = DEFINED ->
            IF GetMedianTimePast(p) >= bip.nTimeout THEN FAILED
            ELSE IF GetMedianTimePast(p) >= bip.nStartTime THEN STARTED
            ELSE DEFINED
      [] state = STARTED ->
            IF CountCondition(p, bip.nPeriod, bip) >= bip.threshold THEN LOCKED_IN
            ELSE IF GetMedianTimePast(p) >= bip.nTimeout THEN FAILED
            ELSE STARTED
      [] state = LOCKED_IN -> ACTIVE
      [] OTHER -> state

\* StateNext with the start time tested before the timeout in DEFINED
StateNextStartFirst(state, p, bip) ==
    CASE state = DEFINED ->
            IF GetMedianTimePast(p) >= bip.nStartTime THEN STARTED
            ELSE IF GetMedianTimePast(p) >= bip.nTimeout THEN FAILED
            ELSE DEFINED
      [] state = STARTED ->
            IF GetMedianTimePast(p) >= bip.nTimeout THEN FAILED
            ELSE IF CountCondition(p, bip.nPeriod, bip) >= bip.threshold THEN LOCKED_IN
            ELSE STARTED
      [] state = LOCKED_IN -> ACTIVE
      [] OTHER -> state

\* StateNext with LOCKED_IN subject to the timeout like STARTED
StateNextLockedInTimesOut(state, p, bip) ==
    CASE state = DEFINED ->
            IF GetMedianTimePast(p) >= bip.nTimeout THEN FAILED
            ELSE IF GetMedianTimePast(p) >= bip.nStartTime THEN STARTED
            ELSE DEFINED
      [] state = STARTED ->
            IF GetMedianTimePast(p) >= bip.nTimeout THEN FAILED
            ELSE IF CountCondition(p, bip.nPeriod, bip) >= bip.threshold THEN LOCKED_IN
            ELSE STARTED
      [] state = LOCKED_IN ->
            IF GetMedianTimePast(p) >= bip.nTimeout THEN FAILED ELSE ACTIVE
      [] OTHER -> state

\* StateNext that makes a deployment ACTIVE as soon as the threshold is met
StateNextActiveAtOnce(state, p, bip) ==
    CASE state = DEFINED ->
            IF GetMedianTimePast(p) >= bip.nTimeout THEN FAILED
            ELSE IF GetMedianTimePast(p) >= bip.nStartTime THEN STARTED
            ELSE DEFINED
      [] state = STARTED ->
            IF GetMedianTimePast(p) >= bip.nTimeout THEN FAILED
            ELSE IF CountCondition(p, bip.nPeriod, bip) >= bip.threshold THEN ACTIVE
            ELSE STARTED
      [] state = LOCKED_IN -> ACTIVE
      [] OTHER -> state

\* the switch on the state of the period before: the state of the period that
\* follows the aligned block p
StateNext(state, p, bip) ==
    CASE state = DEFINED ->
            IF GetMedianTimePast(p) >= bip.nTimeout THEN FAILED
            ELSE IF GetMedianTimePast(p) >= bip.nStartTime THEN STARTED
            ELSE DEFINED
      [] state = STARTED ->
            IF GetMedianTimePast(p) >= bip.nTimeout THEN FAILED
            ELSE IF CountCondition(p, bip.nPeriod, bip) >= bip.threshold THEN LOCKED_IN
            ELSE STARTED
      [] state = LOCKED_IN -> ACTIVE
      [] OTHER -> state

RECURSIVE WalkForwardStale(_, _, _, _)
\* WalkForward with the cache written before the state is advanced: the entry
\* of each block holds the state of the period before
WalkForwardStale(state, cache, bip, vToCompute) ==
    IF vToCompute = <<>> THEN [state |-> state, cache |-> cache]
    ELSE LET p == vToCompute[Len(vToCompute)]
             stateNext == StateNext(state, p, bip)
         IN WalkForwardStale(stateNext, (p :> state) @@ cache, bip,
                             SubSeq(vToCompute, 1, Len(vToCompute) - 1))

RECURSIVE WalkForward(_, _, _, _)
\* the forward walk: pops vToCompute from the back, computes and caches each state
WalkForward(state, cache, bip, vToCompute) ==
    IF vToCompute = <<>> THEN [state |-> state, cache |-> cache]
    ELSE LET p == vToCompute[Len(vToCompute)]
             stateNext == StateNext(state, p, bip)
         IN WalkForward(stateNext, (p :> stateNext) @@ cache, bip,
                        SubSeq(vToCompute, 1, Len(vToCompute) - 1))

\* UpdateCacheState without the test for an always active deployment
UpdateCacheStateNoAlwaysActive(pindexPrev, cache, bip) ==
    LET back == WalkBack(AlignedAncestor(pindexPrev, bip), cache, bip, <<>>)
    IN WalkForward(back.cache[back.pindexPrev], back.cache, bip, back.vToCompute)

\* UpdateCacheState: the returned state and the cache as the call leaves it
UpdateCacheState(pindexPrev, cache, bip) ==
    IF bip.nStartTime = ALWAYS_ACTIVE THEN [state |-> ACTIVE, cache |-> cache]
    ELSE LET back == WalkBack(AlignedAncestor(pindexPrev, bip), cache, bip, <<>>)
         IN WalkForward(back.cache[back.pindexPrev], back.cache, bip, back.vToCompute)

RECURSIVE StatsCount(_, _, _)
\* the counting loop of GetStateStatisticsFor: Condition over the blocks from
\* currentIndex back to, and not including, the block at height endHeight
StatsCount(currentIndex, endHeight, bip) ==
    IF nHeight(currentIndex) = endHeight THEN 0
    ELSE (IF Condition(currentIndex, bip) THEN 1 ELSE 0)
         + StatsCount(pprev(currentIndex), endHeight, bip)

\* StatsFrom with the block at endHeight taken as elapsed too
StatsFromInclusive(pindex, bip, endHeight) ==
    LET elapsed == nHeight(pindex) - endHeight + 1
        count == StatsCount(pindex, endHeight, bip)
    IN [period |-> bip.nPeriod, threshold |-> bip.threshold,
        elapsed |-> elapsed, count |-> count,
        possible |-> (bip.nPeriod - bip.threshold) >= (elapsed - count)]

\* the BIP9Stats computed with endHeight read as pindexEndOfPrevPeriod->nHeight
StatsFrom(pindex, bip, endHeight) ==
    LET elapsed == nHeight(pindex) - endHeight
        count == StatsCount(pindex, endHeight, bip)
    IN [period |-> bip.nPeriod, threshold |-> bip.threshold,
        elapsed |-> elapsed, count |-> count,
        possible |-> (bip.nPeriod - bip.threshold) >= (elapsed - count)]

\* BIP9Stats stats = {} with period and threshold set
StatsInitial(bip) ==
    [period |-> bip.nPeriod, threshold |-> bip.threshold,
     elapsed |-> 0, count |-> 0, possible |-> FALSE]

\* GetStateStatisticsFor: the outcomes of the call. For a block of the first
\* period, below height nPeriod - 1, GetAncestor is asked for height -1 and
\* returns null, and pindexEndOfPrevPeriod->nHeight reads through the null
\* pointer: the call faults, or takes whatever height the read yields (a height
\* that is not an ancestor's makes the counting loop walk past the genesis block
\* and read through null again)
GetStateStatisticsFor(pindex, bip) ==
    IF pindex = NULL
    THEN {[outcome |-> "returned", value |-> StatsInitial(bip)]}
    ELSE LET pindexEndOfPrevPeriod ==
                 GetAncestor(pindex, nHeight(pindex) - ((nHeight(pindex) + 1) % bip.nPeriod))
         IN IF pindexEndOfPrevPeriod = NULL
            THEN {[outcome |-> "fault", value |-> StatsInitial(bip)]}
                 \cup {[outcome |-> "returned", value |-> StatsFrom(pindex, bip, g)] :
                           g \in 0..nHeight(pindex)}
            ELSE {[outcome |-> "returned",
                   value |-> StatsFrom(pindex, bip, nHeight(pindexEndOfPrevPeriod))]}

RECURSIVE SinceWalkNoAdjust(_, _, _, _)
\* SinceWalk without the final adjustment: the height of the parent block is
\* returned in place of pindexPrev->nHeight + 1
SinceWalkNoAdjust(p, cache, bip, initialState) ==
    LET previousPeriodParent == GetAncestor(p, nHeight(p) - bip.nPeriod)
        r == UpdateCacheState(previousPeriodParent, cache, bip)
    IN IF previousPeriodParent = NULL THEN [height |-> nHeight(p), cache |-> cache]
       ELSE IF r.state = initialState
       THEN SinceWalkNoAdjust(previousPeriodParent, r.cache, bip, initialState)
       ELSE [height |-> nHeight(p), cache |-> r.cache]

RECURSIVE SinceWalk(_, _, _, _)
\* the loop of StartingHeightOfBlockIndexState: steps back one period while the
\* period before has the initial state; every step queries UpdateCacheState
SinceWalk(p, cache, bip, initialState) ==
    LET previousPeriodParent == GetAncestor(p, nHeight(p) - bip.nPeriod)
        r == UpdateCacheState(previousPeriodParent, cache, bip)
    IN IF previousPeriodParent = NULL THEN [height |-> nHeight(p) + 1, cache |-> cache]
       ELSE IF r.state = initialState
       THEN SinceWalk(previousPeriodParent, r.cache, bip, initialState)
       ELSE [height |-> nHeight(p) + 1, cache |-> r.cache]

\* StartingHeightOfBlockIndexState without the step to the aligned ancestor of
\* pindexPrev before the loop
StartingHeightUnaligned(pindexPrev, cache, bip) ==
    IF bip.nStartTime = ALWAYS_ACTIVE THEN [height |-> 0, cache |-> cache]
    ELSE LET first == UpdateCacheState(pindexPrev, cache, bip)
         IN IF first.state = DEFINED THEN [height |-> 0, cache |-> first.cache]
            ELSE SinceWalk(pindexPrev, first.cache, bip, first.state)

\* StartingHeightOfBlockIndexState: the returned height and the cache afterwards
StartingHeightOfBlockIndexState(pindexPrev, cache, bip) ==
    IF bip.nStartTime = ALWAYS_ACTIVE THEN [height |-> 0, cache |-> cache]
    ELSE LET first == UpdateCacheState(pindexPrev, cache, bip)
         IN IF first.state = DEFINED THEN [height |-> 0, cache |-> first.cache]
            ELSE SinceWalk(AlignedAncestor(pindexPrev, bip), first.cache, bip, first.state)

----------------------------------------------------------------------------
\* CLevelDBWrapper and CLevelDBBatch

\* a database that holds no key
EmptyStore == <<>>

\* no batched write is in progress
NoBatch == [op |-> "none"]

\* no iteration is in progress
NoIteration == [op |-> "none"]

\* the databases as they are created, with no write and no iteration in
\* progress
StoresEmpty ==
    /\ db = EmptyStore
    /\ blocktree = EmptyStore
    /\ batch = NoBatch
    /\ pcursor = NoIteration

\* CLevelDBBatch::Write(key, value)
BatchPut(ops, key, value) == Append(ops, [type |-> "Write", key |-> key, value |-> value])

\* CLevelDBBatch::Erase(key)
BatchErase(ops, key) == Append(ops, [type |-> "Erase", key |-> key])

\* one operation of a batch applied to a store
ApplyOp(store, o) ==
    IF o.type = "Write" THEN (o.key :> o.value) @@ store
    ELSE [k \in DOMAIN store \ {o.key} |-> store[k]]

RECURSIVE ApplyBatch(_, _)
\* the store after all operations of a batch, applied in their order
ApplyBatch(store, ops) ==
    IF ops = <<>> THEN store
    ELSE ApplyBatch(ApplyOp(store, Head(ops)), Tail(ops))

\* CLevelDBWrapper::Exists(key)
Exists(store, key) == key \in DOMAIN store

----------------------------------------------------------------------------
\* State machine

EmptyCache == <<>>

EmptyCaches == [d \in 0..(MaxBits - 1) |-> EmptyCache]

NoCall == [op |-> "none"]

Init ==
    /\ mapBlockIndex = <<>>
    /\ vDeployments \in {{d} : d \in Deployments}
    /\ caches = EmptyCaches
    /\ ret = NoCall
    /\ StoresEmpty
    /\ setStakeSeen = {}

\* a block is appended to the tip of the chain and interned in the block index
InsertBlockIndex ==
    /\ ret = NoCall
    /\ Len(mapBlockIndex) < MaxBlocks
    /\ \E t \in BlockTimes, v \in BlockVersions :
          mapBlockIndex' = Append(mapBlockIndex,
              [pprev |-> Len(mapBlockIndex), nHeight |-> Len(mapBlockIndex),
               nVersion |-> v, nTime |-> t])
    /\ UNCHANGED <<setStakeSeen, vDeployments, caches, ret, dbVars>>

\* VersionBitsState(pindexPrev, bip, cache)
VersionBitsState ==
    /\ ret = NoCall
    /\ \E bip \in vDeployments, pindexPrev \in BlockPtrs :
        LET r == UpdateCacheState(pindexPrev, caches[bip.bit], bip)
        IN /\ caches' = [caches EXCEPT ![bip.bit] = r.cache]
           /\ ret' = [op |-> "VersionBitsState", pindexPrev |-> pindexPrev,
                      bip |-> bip, value |-> r.state]
           /\ UNCHANGED <<mapBlockIndex, setStakeSeen, vDeployments, dbVars>>

\* VersionBitsStateSinceHeight(pindexPrev, bip, cache)
VersionBitsStateSinceHeight ==
    /\ ret = NoCall
    /\ \E bip \in vDeployments, pindexPrev \in BlockPtrs :
        LET r == StartingHeightOfBlockIndexState(pindexPrev, caches[bip.bit], bip)
        IN /\ caches' = [caches EXCEPT ![bip.bit] = r.cache]
           /\ ret' = [op |-> "VersionBitsStateSinceHeight", pindexPrev |-> pindexPrev,
                      bip |-> bip, value |-> r.height]
           /\ UNCHANGED <<mapBlockIndex, setStakeSeen, vDeployments, dbVars>>

\* VersionBitsCache::Clear
Clear ==
    /\ ret = NoCall
    /\ caches' = [d \in DOMAIN caches |-> EmptyCache]
    /\ ret' = [op |-> "Clear"]
    /\ UNCHANGED <<mapBlockIndex, setStakeSeen, vDeployments, dbVars>>

\* the caller takes the value the last call returned; calls do not overlap (the
\* callers hold the chain-state lock)
Return ==
    /\ ret # NoCall
    /\ ret' = NoCall
    /\ UNCHANGED <<mapBlockIndex, setStakeSeen, vDeployments, caches, dbVars>>

Next ==
    \/ InsertBlockIndex
    \/ VersionBitsState
    \/ VersionBitsStateSinceHeight
    \/ Clear
    \/ Return

Spec == Init /\ [][Next]_vars

\* the node is configured with two deployments
InitBits ==
    /\ mapBlockIndex = <<>>
    /\ vDeployments \in DeploymentPairs
    /\ caches = EmptyCaches
    /\ ret = NoCall
    /\ StoresEmpty
    /\ setStakeSeen = {}

SpecBits == InitBits /\ [][Next]_vars

----------------------------------------------------------------------------
\* Statistics queries on a growing chain

\* checker.GetStateStatisticsFor(pindex) for a configured deployment
StateStatistics ==
    /\ ret = NoCall
    /\ \E bip \in vDeployments, pindex \in BlockPtrs :
        \E r \in GetStateStatisticsFor(pindex, bip) :
           ret' = [op |-> "GetStateStatisticsFor", pindexPrev |-> pindex, bip |-> bip,
                   outcome |-> r.outcome, value |-> r.value]
    /\ UNCHANGED <<mapBlockIndex, setStakeSeen, vDeployments, caches, dbVars>>

NextStats ==
    \/ InsertBlockIndex
    \/ StateStatistics
    \/ Return

SpecStats == Init /\ [][NextStats]_vars

----------------------------------------------------------------------------
\* State queries on a block index with forks: a block is interned with any
\* block of the index as its predecessor, so that branches share a prefix;
\* the cache is never cleared

\* the deployments of the fork queries: D has a one-block period, E a
\* two-block period and a timeout
ForkDeployments == {DeploymentD, DeploymentE}

\* the blocks of the fork queries: at time 2 and signalling, at time 2 and not
\* signalling, at time 1 and not signalling
ForkBlockKinds ==
    {[nTime |-> 2, nVersion |-> VERSIONBITS_TOP_BITS + 1],
     [nTime |-> 2, nVersion |-> 1],
     [nTime |-> 1, nVersion |-> 1]}

\* a block is interned: the genesis block after the null pointer, any other
\* block after the last block interned or beside it (after the same
\* predecessor), which starts a new branch
InsertForkBlock ==
    /\ ret = NoCall
    /\ Len(mapBlockIndex) < ForkBlocks
    /\ \E parent \in BlockPtrs, b \in ForkBlockKinds :
          /\ IF mapBlockIndex = <<>> THEN parent = NULL
             ELSE /\ parent # NULL
                  /\ parent \in {Len(mapBlockIndex), pprev(Len(mapBlockIndex))}
          /\ mapBlockIndex' = Append(mapBlockIndex,
                [pprev |-> parent,
                 nHeight |-> IF parent = NULL THEN 0 ELSE nHeight(parent) + 1,
                 nVersion |-> b.nVersion, nTime |-> b.nTime])
    /\ UNCHANGED <<setStakeSeen, vDeployments, caches, ret, dbVars>>

InitFork ==
    /\ mapBlockIndex = <<>>
    /\ vDeployments \in {{d} : d \in ForkDeployments}
    /\ caches = EmptyCaches
    /\ ret = NoCall
    /\ StoresEmpty
    /\ setStakeSeen = {}

NextFork ==
    \/ InsertForkBlock
    \/ VersionBitsState
    \/ Return

SpecFork == InitFork /\ [][NextFork]_vars

----------------------------------------------------------------------------
\* The activation scenario: a chain of four ten-block periods with the
\* timestamps 50, 150, 200, 200 per period

\* the timestamp of the block at height h
ScenarioTime(h) == IF h < 10 THEN 50 ELSE IF h < 20 THEN 150 ELSE 200

\* the versions the block at height h may carry: in the second and the third
\* period the first seven blocks signal or not together, the eighth may signal
\* when they do, the last two do not (0, 7 or 8 signalling blocks per period);
\* no block of the other periods signals
ScenarioVersions(h) ==
    LET pos == h % DeploymentS.nPeriod
        period == h \div DeploymentS.nPeriod
        signals == VERSIONBITS_TOP_BITS + 1
    IN IF period \notin {1, 2} THEN {1}
       ELSE IF pos = 0 THEN BlockVersions
       ELSE IF pos < 7 THEN {mapBlockIndex[h].nVersion}
       ELSE IF pos = 7 /\ mapBlockIndex[h].nVersion = signals THEN BlockVersions
       ELSE {1}

InitScenario ==
    /\ mapBlockIndex = <<>>
    /\ vDeployments = {DeploymentS}
    /\ caches = EmptyCaches
    /\ ret = NoCall
    /\ StoresEmpty
    /\ setStakeSeen = {}

\* the next block of the scenario's chain is interned in the block index
InsertScenarioBlock ==
    /\ ret = NoCall
    /\ Len(mapBlockIndex) < ScenarioBlocks
    /\ \E v \in ScenarioVersions(Len(mapBlockIndex)) :
          mapBlockIndex' = Append(mapBlockIndex,
              [pprev |-> Len(mapBlockIndex), nHeight |-> Len(mapBlockIndex),
               nVersion |-> v, nTime |-> ScenarioTime(Len(mapBlockIndex))])
    /\ UNCHANGED <<setStakeSeen, vDeployments, caches, ret, dbVars>>

NextScenario ==
    \/ InsertScenarioBlock
    \/ VersionBitsState
    \/ Return

SpecScenario == InitScenario /\ [][NextScenario]_vars

----------------------------------------------------------------------------
\* CCoinsViewDB: the chainstate database

\* transaction ids
Txids == {1, 2}

\* block hashes; 0 is uint256(0)
BlockHashes == {0, 1, 2}

\* the value of a null (spent) output: CTxOut::SetNull
OutNull == -1

\* CCoinsCacheEntry::DIRTY
DIRTY == 1

\* CCoinsCacheEntry::FRESH
FRESH == 2

\* coins records of two outputs: both spent, the first spent, none spent
CoinsRecords == {[vout |-> <<OutNull, OutNull>>], [vout |-> <<OutNull, 7>>], [vout |-> <<5, 7>>]}

\* the flags of a cache entry: clean, modified, modified and absent below
CacheFlags == {0, DIRTY, DIRTY + FRESH}

\* CCoinsMap: the cache maps a caller may pass, txid -> {coins, flags}
CoinsMaps ==
    UNION {[S -> [coins : CoinsRecords, flags : CacheFlags]] : S \in SUBSET Txids}

\* CCoins::IsPruned: every output is null
IsPruned(coins) == \A i \in DOMAIN coins.vout : coins.vout[i] = OutNull

\* flags & CCoinsCacheEntry::DIRTY
IsDirty(flags) == (flags \div DIRTY) % 2 = 1

\* std::make_pair('c', txid)
CoinsKey(txid) == <<"c", txid>>

\* the key 'B'
BestBlockKey == <<"B">>

\* BatchWriteCoins that writes every record, fully pruned ones included
BatchWriteCoinsNoErase(ops, hash, coins) == BatchPut(ops, CoinsKey(hash), coins)

\* BatchWriteCoins that leaves a fully pruned record out of the batch
BatchWriteCoinsSkipPruned(ops, hash, coins) ==
    IF IsPruned(coins) THEN ops
    ELSE BatchPut(ops, CoinsKey(hash), coins)

\* BatchWriteCoins: an erase for a fully pruned record, a write otherwise
BatchWriteCoins(ops, hash, coins) ==
    IF IsPruned(coins) THEN BatchErase(ops, CoinsKey(hash))
    ELSE BatchPut(ops, CoinsKey(hash), coins)

\* BatchWriteHashBestChain
BatchWriteHashBestChain(ops, hash) == BatchPut(ops, BestBlockKey, hash)

RECURSIVE BatchWriteLoopAll(_, _)
\* BatchWriteLoop without the test of the DIRTY flag: every entry is written
BatchWriteLoopAll(mapCoins, ops) ==
    IF DOMAIN mapCoins = {} THEN [ops |-> ops, mapCoins |-> mapCoins]
    ELSE LET it == CHOOSE t \in DOMAIN mapCoins : \A u \in DOMAIN mapCoins : t <= u
         IN BatchWriteLoopAll([t \in DOMAIN mapCoins \ {it} |-> mapCoins[t]],
                              BatchWriteCoins(ops, it, mapCoins[it].coins))

RECURSIVE BatchWriteLoopKeep(_, _)
\* BatchWriteLoop that erases only the dirty entries from the map and leaves
\* the others in it
BatchWriteLoopKeep(mapCoins, ops) ==
    LET dirty == {t \in DOMAIN mapCoins : IsDirty(mapCoins[t].flags)}
    IN IF dirty = {} THEN [ops |-> ops, mapCoins |-> mapCoins]
       ELSE LET it == CHOOSE t \in dirty : \A u \in dirty : t <= u
            IN BatchWriteLoopKeep([t \in DOMAIN mapCoins \ {it} |-> mapCoins[t]],
                                  BatchWriteCoins(ops, it, mapCoins[it].coins))

RECURSIVE BatchWriteLoopKeepDirty(_, _, _)
\* BatchWriteLoop that leaves the dirty entries in the map until the batch is
\* committed: the entries not yet visited, and the dirty entries kept
BatchWriteLoopKeepDirty(mapCoins, ops, kept) ==
    IF DOMAIN mapCoins = {} THEN [ops |-> ops, mapCoins |-> kept]
    ELSE LET it == CHOOSE t \in DOMAIN mapCoins : \A u \in DOMAIN mapCoins : t <= u
             entry == mapCoins[it]
         IN BatchWriteLoopKeepDirty([t \in DOMAIN mapCoins \ {it} |-> mapCoins[t]],
                IF IsDirty(entry.flags) THEN BatchWriteCoins(ops, it, entry.coins) ELSE ops,
                IF IsDirty(entry.flags) THEN (it :> entry) @@ kept ELSE kept)

\* BatchWriteLoopKeepDirty from the first entry on
BatchWriteLoopDeferred(mapCoins, ops) == BatchWriteLoopKeepDirty(mapCoins, ops, <<>>)

RECURSIVE BatchWriteLoop(_, _)
\* the loop of BatchWrite over the map (the entries are taken in the order of
\* their txid): a dirty entry adds its operation to the batch, and every entry
\* is erased from the map
BatchWriteLoop(mapCoins, ops) ==
    IF DOMAIN mapCoins = {} THEN [ops |-> ops, mapCoins |-> mapCoins]
    ELSE LET it == CHOOSE t \in DOMAIN mapCoins : \A u \in DOMAIN mapCoins : t <= u
             entry == mapCoins[it]
         IN BatchWriteLoop([t \in DOMAIN mapCoins \ {it} |-> mapCoins[t]],
                           IF IsDirty(entry.flags)
                           THEN BatchWriteCoins(ops, it, entry.coins)
                           ELSE ops)

\* BatchWrite that writes the marker whatever hashBlock is
BatchWriteAlwaysMarker(mapCoins, hashBlock) ==
    LET loop == BatchWriteLoop(mapCoins, <<>>)
    IN [queue |-> <<BatchWriteHashBestChain(loop.ops, hashBlock)>>,
        mapCoins |-> loop.mapCoins]

\* BatchWrite that commits the coins and the marker in two batches
BatchWriteTwoBatches(mapCoins, hashBlock) ==
    LET loop == BatchWriteLoop(mapCoins, <<>>)
    IN [queue |-> IF hashBlock # 0
                  THEN <<loop.ops, BatchWriteHashBestChain(<<>>, hashBlock)>>
                  ELSE <<loop.ops>>,
        mapCoins |-> loop.mapCoins]

\* CCoinsViewDB::BatchWrite up to the call of db.WriteBatch: the batches it
\* submits (one) and the map as the loop leaves it
BatchWriteBuild(mapCoins, hashBlock) ==
    LET loop == BatchWriteLoop(mapCoins, <<>>)
    IN [queue |-> <<IF hashBlock # 0
                    THEN BatchWriteHashBestChain(loop.ops, hashBlock)
                    ELSE loop.ops>>,
        mapCoins |-> loop.mapCoins]

\* CCoinsViewDB::HaveCoins
HaveCoins(store, txid) == Exists(store, CoinsKey(txid))

\* CCoinsViewDB::GetCoins: whether the record was read, and the record
GetCoins(store, txid) ==
    IF CoinsKey(txid) \in DOMAIN store
    THEN [found |-> TRUE, coins |-> store[CoinsKey(txid)]]
    ELSE [found |-> FALSE]

\* CCoinsViewDB::GetBestBlock: uint256(0) when the key 'B' cannot be read
GetBestBlock(store) ==
    IF BestBlockKey \in DOMAIN store THEN store[BestBlockKey] ELSE 0

\* the store a batched operation writes to
StoreOf(op) == IF op = "BatchWrite" THEN db ELSE blocktree

\* CCoinsViewDB::BatchWrite is called with a cache map and a block hash: the
\* batch is built and the map emptied
BatchWrite ==
    /\ ret = NoCall
    /\ batch = NoBatch
    /\ \E mapCoins \in CoinsMaps, hashBlock \in BlockHashes :
        LET b == BatchWriteBuild(mapCoins, hashBlock)
        IN batch' = [op |-> "BatchWrite", mapCoinsIn |-> mapCoins, hashBlock |-> hashBlock,
                     queue |-> b.queue, mapCoins |-> b.mapCoins, before |-> db]
    /\ UNCHANGED <<mapBlockIndex, setStakeSeen, vDeployments, caches, ret, db, blocktree, pcursor>>

\* CLevelDBWrapper::WriteBatch: the next batch of the call in progress is
\* applied as a whole, or the write fails and nothing of it is applied; the
\* call returns what WriteBatch returned: false on a failure and true after its
\* last batch (engine records the outcome of the write itself)
WriteBatch ==
    /\ ret = NoCall
    /\ batch # NoBatch
    /\ \E ok \in BOOLEAN :
        LET store == IF ok THEN ApplyBatch(StoreOf(batch.op), Head(batch.queue))
                     ELSE StoreOf(batch.op)
            more == ok /\ Len(batch.queue) > 1
        IN /\ IF batch.op = "BatchWrite"
              THEN db' = store /\ blocktree' = blocktree
              ELSE blocktree' = store /\ db' = db
           /\ batch' = IF more THEN [batch EXCEPT !.queue = Tail(batch.queue)] ELSE NoBatch
           /\ ret' = IF more THEN ret
                     ELSE [op |-> batch.op, call |-> batch, engine |-> ok, value |-> ok]
    /\ UNCHANGED <<mapBlockIndex, setStakeSeen, vDeployments, caches, pcursor>>

\* a reader calls CCoinsViewDB::HaveCoins
ReadHaveCoins ==
    /\ ret = NoCall
    /\ \E txid \in Txids :
          ret' = [op |-> "HaveCoins", txid |-> txid, value |-> HaveCoins(db, txid)]
    /\ UNCHANGED <<mapBlockIndex, setStakeSeen, vDeployments, caches, dbVars>>

\* a reader calls CCoinsViewDB::GetCoins
ReadGetCoins ==
    /\ ret = NoCall
    /\ \E txid \in Txids :
          ret' = [op |-> "GetCoins", txid |-> txid, value |-> GetCoins(db, txid)]
    /\ UNCHANGED <<mapBlockIndex, setStakeSeen, vDeployments, caches, dbVars>>

\* a reader calls CCoinsViewDB::GetBestBlock
ReadGetBestBlock ==
    /\ ret = NoCall
    /\ ret' = [op |-> "GetBestBlock", value |-> GetBestBlock(db)]
    /\ UNCHANGED <<mapBlockIndex, setStakeSeen, vDeployments, caches, dbVars>>

InitCoins ==
    /\ mapBlockIndex = <<>>
    /\ vDeployments = {}
    /\ caches = EmptyCaches
    /\ ret = NoCall
    /\ StoresEmpty
    /\ setStakeSeen = {}

NextCoins ==
    \/ BatchWrite
    \/ WriteBatch
    \/ ReadHaveCoins
    \/ ReadGetCoins
    \/ ReadGetBestBlock
    \/ Return

SpecCoins == InitCoins /\ [][NextCoins]_vars

----------------------------------------------------------------------------
\* CBlockTreeDB: the batched updates of the secondary indexes

DB_ADDRESSINDEX == "a"

DB_SPENTINDEX == "p"

DB_ADDRESSUNSPENTINDEX == "u"

DB_TXINDEX == "t"

DB_BARETXIDINDEX == "T"

\* keys of the spent index (a CSpentIndexKey)
IndexKeys == {1, 2}

\* the null value of an index entry, which asks for the deletion of its key
NullValue == -1

\* values of an index entry (a CSpentIndexValue, CAddressUnspentValue, CAmount
\* or CDiskTxPos)
IndexValues == {1, 2}

\* IsNull() of an index value
IsNull(value) == value = NullValue

\* the sequences of at most n elements of S
VectorsOf(S, n) == UNION {[1..k -> S] : k \in 0..n}

\* the transactions that are indexed, by their two hashes: one whose txid and
\* bare txid are the same hash, and two that differ in their txid only. No
\* hash is the txid of one transaction and the bare txid of another one
Transactions ==
    {[txid |-> 1, bareTxid |-> 1], [txid |-> 2, bareTxid |-> 3], [txid |-> 4, bareTxid |-> 3]}

\* the hashes ReadTxIndex is asked for; no transaction has the last one
TxHashes == {1, 2, 3, 4, 5}

\* TxIndexEntry: the hashes of a transaction and a position on disk
TxIndexEntries ==
    {[txid |-> tx.txid, bareTxid |-> tx.bareTxid, diskPos |-> pos] :
        tx \in Transactions, pos \in IndexValues}

\* std::vector<TxIndexEntry>
TxIndexVects == VectorsOf(TxIndexEntries, MaxVect)

\* std::vector<std::pair<CSpentIndexKey, CSpentIndexValue>>; a null value
\* deletes its key
UpdateVects == VectorsOf([first : IndexKeys, second : IndexValues \cup {NullValue}], MaxVect)

\* the address types
AddressTypes == {1, 2}

\* the address hashes (uint160)
AddressHashes == {1, 2}

\* CAddressIndexKey, with the fields the database orders and reads by: two
\* events of one address, an event of the same hash under the other type, and
\* an event of another hash
CAddressIndexKey ==
    {[type |-> 1, hashBytes |-> 1, blockHeight |-> 1],
     [type |-> 1, hashBytes |-> 1, blockHeight |-> 2],
     [type |-> 1, hashBytes |-> 2, blockHeight |-> 1],
     [type |-> 2, hashBytes |-> 1, blockHeight |-> 1]}

\* CAddressUnspentKey: outputs of one hash under both types, and of another hash
CAddressUnspentKey ==
    {[type |-> 1, hashBytes |-> 1, txhash |-> 1],
     [type |-> 1, hashBytes |-> 2, txhash |-> 1],
     [type |-> 2, hashBytes |-> 1, txhash |-> 1]}

\* std::vector<std::pair<CAddressUnspentKey, CAddressUnspentValue>>
AddressUnspentVects ==
    VectorsOf([first : CAddressUnspentKey, second : IndexValues \cup {NullValue}], MaxVect)

\* std::vector<std::pair<CAddressIndexKey, CAmount>>
AddressIndexVects == VectorsOf([first : CAddressIndexKey, second : IndexValues], MaxVect)

RECURSIVE WriteTxIndexLoopNoBare(_, _)
\* WriteTxIndexLoop that writes the position under the txid only
WriteTxIndexLoopNoBare(vect, ops) ==
    IF vect = <<>> THEN ops
    ELSE WriteTxIndexLoopNoBare(Tail(vect),
             BatchPut(ops, <<DB_TXINDEX, Head(vect).txid>>, Head(vect).diskPos))

RECURSIVE WriteTxIndexLoop(_, _)
\* the loop of WriteTxIndex: the position is written under the txid and under
\* the bare txid
WriteTxIndexLoop(vect, ops) ==
    IF vect = <<>> THEN ops
    ELSE LET entry == Head(vect)
         IN WriteTxIndexLoop(Tail(vect),
                BatchPut(BatchPut(ops, <<DB_TXINDEX, entry.txid>>, entry.diskPos),
                         <<DB_BARETXIDINDEX, entry.bareTxid>>, entry.diskPos))

RECURSIVE UpdateLoopStoreNull(_, _, _)
\* UpdateLoop that writes a null value under its key in place of erasing it
UpdateLoopStoreNull(tag, vect, ops) ==
    IF vect = <<>> THEN ops
    ELSE UpdateLoopStoreNull(tag, Tail(vect),
             BatchPut(ops, <<tag, Head(vect).first>>, Head(vect).second))

RECURSIVE UpdateLoopBackwards(_, _, _)
\* UpdateLoop that takes the entries of the vector from the last to the first
UpdateLoopBackwards(tag, vect, ops) ==
    IF vect = <<>> THEN ops
    ELSE LET it == vect[Len(vect)]
         IN UpdateLoopBackwards(tag, SubSeq(vect, 1, Len(vect) - 1),
                IF IsNull(it.second) THEN BatchErase(ops, <<tag, it.first>>)
                ELSE BatchPut(ops, <<tag, it.first>>, it.second))

RECURSIVE UpdateLoop(_, _, _)
\* the loop of UpdateAddressUnspentIndex and of UpdateSpentIndex over the keys
\* of one tag: an erase for a null value, a write otherwise
UpdateLoop(tag, vect, ops) ==
    IF vect = <<>> THEN ops
    ELSE LET it == Head(vect)
         IN UpdateLoop(tag, Tail(vect),
                IF IsNull(it.second) THEN BatchErase(ops, <<tag, it.first>>)
                ELSE BatchPut(ops, <<tag, it.first>>, it.second))

RECURSIVE WriteAddressIndexLoop(_, _)
\* the loop of WriteAddressIndex
WriteAddressIndexLoop(vect, ops) ==
    IF vect = <<>> THEN ops
    ELSE WriteAddressIndexLoop(Tail(vect),
             BatchPut(ops, <<DB_ADDRESSINDEX, Head(vect).first>>, Head(vect).second))

RECURSIVE EraseAddressIndexLoop(_, _)
\* the loop of EraseAddressIndex
EraseAddressIndexLoop(vect, ops) ==
    IF vect = <<>> THEN ops
    ELSE EraseAddressIndexLoop(Tail(vect),
             BatchErase(ops, <<DB_ADDRESSINDEX, Head(vect).first>>))

\* WriteTxIndex: the batches it submits (one)
WriteTxIndexBuild(vect) == <<WriteTxIndexLoop(vect, <<>>)>>

\* UpdateAddressUnspentIndex: the batches it submits (one)
UpdateAddressUnspentIndexBuild(vect) == <<UpdateLoop(DB_ADDRESSUNSPENTINDEX, vect, <<>>)>>

\* UpdateSpentIndex that commits every entry on its own, in place of one batch
UpdateSpentIndexUnbatched(vect) ==
    IF vect = <<>> THEN <<<<>>>>
    ELSE [i \in 1..Len(vect) |-> UpdateLoop(DB_SPENTINDEX, <<vect[i]>>, <<>>)]

\* UpdateSpentIndex: the batches it submits (one)
UpdateSpentIndexBuild(vect) == <<UpdateLoop(DB_SPENTINDEX, vect, <<>>)>>

\* WriteAddressIndex: the batches it submits (one)
WriteAddressIndexBuild(vect) == <<WriteAddressIndexLoop(vect, <<>>)>>

\* EraseAddressIndex: the batches it submits (one)
EraseAddressIndexBuild(vect) == <<EraseAddressIndexLoop(vect, <<>>)>>

\* a batched update of the block tree database is called with a vector
IndexCall(op, vect, queue) ==
    /\ ret = NoCall
    /\ batch = NoBatch
    /\ batch' = [op |-> op, vect |-> vect, queue |-> queue, before |-> blocktree]
    /\ UNCHANGED <<mapBlockIndex, setStakeSeen, vDeployments, caches, ret, db, blocktree, pcursor>>

\* CBlockTreeDB::WriteTxIndex
WriteTxIndex ==
    \E vect \in TxIndexVects : IndexCall("WriteTxIndex", vect, WriteTxIndexBuild(vect))

\* CBlockTreeDB::UpdateAddressUnspentIndex
UpdateAddressUnspentIndex ==
    \E vect \in AddressUnspentVects :
        IndexCall("UpdateAddressUnspentIndex", vect, UpdateAddressUnspentIndexBuild(vect))

\* CBlockTreeDB::UpdateSpentIndex
UpdateSpentIndex ==
    \E vect \in UpdateVects : IndexCall("UpdateSpentIndex", vect, UpdateSpentIndexBuild(vect))

\* CBlockTreeDB::WriteAddressIndex
WriteAddressIndex ==
    \E vect \in AddressIndexVects :
        IndexCall("WriteAddressIndex", vect, WriteAddressIndexBuild(vect))

\* CBlockTreeDB::EraseAddressIndex
EraseAddressIndex ==
    \E vect \in AddressIndexVects :
        IndexCall("EraseAddressIndex", vect, EraseAddressIndexBuild(vect))

\* the block tree database holds keys of these tags only
OnlyTags(tags) == \A k \in DOMAIN blocktree : k[1] \in tags

\* the batched writes of a node that maintains the chainstate, or the tx
\* index, or the address indexes, or the spent index: a call on one of them is
\* made while the others hold nothing
NextBatch ==
    \/ (blocktree = EmptyStore /\ BatchWrite)
    \/ (db = EmptyStore /\ OnlyTags({DB_TXINDEX, DB_BARETXIDINDEX}) /\ WriteTxIndex)
    \/ (db = EmptyStore /\ OnlyTags({DB_ADDRESSUNSPENTINDEX}) /\ UpdateAddressUnspentIndex)
    \/ (db = EmptyStore /\ OnlyTags({DB_SPENTINDEX}) /\ UpdateSpentIndex)
    \/ (db = EmptyStore /\ OnlyTags({DB_ADDRESSINDEX}) /\ WriteAddressIndex)
    \/ (db = EmptyStore /\ OnlyTags({DB_ADDRESSINDEX}) /\ EraseAddressIndex)
    \/ WriteBatch
    \/ Return

SpecBatch == InitCoins /\ [][NextBatch]_vars

----------------------------------------------------------------------------
\* CBlockTreeDB: keys as the database orders them, and its iterator

\* the byte of each key tag
TagByte ==
    ("B" :> 66) @@ ("R" :> 82) @@ ("T" :> 84) @@ ("a" :> 97) @@ ("b" :> 98) @@
    ("c" :> 99) @@ ("p" :> 112) @@ ("t" :> 116) @@ ("u" :> 117)

\* the key 'R'
ReindexKey == <<"R">>

\* the serialized key: the tag, then the fields of the key in their order (a
\* field stands for its bytes; the heights are written big-endian, so the
\* order of the bytes is the order of the numbers)
SerializeKey(key) ==
    IF Len(key) = 1 THEN <<TagByte[key[1]]>>
    ELSE IF key[1] = DB_ADDRESSINDEX
    THEN <<TagByte[key[1]], key[2].type, key[2].hashBytes, key[2].blockHeight>>
    ELSE IF key[1] = DB_ADDRESSUNSPENTINDEX
    THEN <<TagByte[key[1]], key[2].type, key[2].hashBytes, key[2].txhash>>
    ELSE <<TagByte[key[1]], key[2]>>

\* the order of the database: serialized keys compared byte by byte, a proper
\* prefix before its extensions
BytesLess(a, b) ==
    \E i \in 1..Len(b) :
        /\ Len(a) >= i - 1
        /\ \A j \in 1..(i - 1) : a[j] = b[j]
        /\ (Len(a) = i - 1 \/ a[i] < b[i])

\* pcursor->Seek(slKey): the iterator stands on the first key that is not
\* before slKey; the keys it has still to visit
Seek(store, slKey) == {k \in DOMAIN store : ~BytesLess(SerializeKey(k), slKey)}

\* pcursor->key(): the smallest of the keys still to visit
CursorKey(cursor) ==
    CHOOSE k \in cursor :
        \A j \in cursor \ {k} : BytesLess(SerializeKey(k), SerializeKey(j))

\* GetKey<std::pair<char, CAddressIndexKey>>: false when the bytes end before
\* the key is read
GetAddressIndexKey(slKey) ==
    IF Len(slKey) < 4 THEN [ok |-> FALSE]
    ELSE [ok |-> TRUE, first |-> slKey[1],
          second |-> [type |-> slKey[2], hashBytes |-> slKey[3], blockHeight |-> slKey[4]]]

\* GetKey<std::pair<char, CAddressUnspentKey>>
GetAddressUnspentKey(slKey) ==
    IF Len(slKey) < 4 THEN [ok |-> FALSE]
    ELSE [ok |-> TRUE, first |-> slKey[1],
          second |-> [type |-> slKey[2], hashBytes |-> slKey[3], txhash |-> slKey[4]]]

\* the heights a range of ReadAddressIndex is asked with; 0 asks for no bound
RangeHeights == {0, 1, 2}

\* the key the iteration ended on without taking it: none when the iterator
\* ran off the end of the database
NoKey == <<>>

RECURSIVE ReadAddressIndexLoop(_, _, _, _, _)
\* the loop of ReadAddressIndex: an entry is taken while the key deserializes,
\* has the tag 'a' and the address hash asked for, and is not above end; the
\* loop ends on the first other key, and the read returns true
ReadAddressIndexLoop(store, cursor, addressHash, end, addressIndex) ==
    IF cursor = {} THEN [ok |-> TRUE, addressIndex |-> addressIndex, stop |-> NoKey]
    ELSE LET k == CursorKey(cursor)
             key == GetAddressIndexKey(SerializeKey(k))
         IN IF key.ok /\ key.first = TagByte[DB_ADDRESSINDEX]
                    /\ key.second.hashBytes = addressHash
            THEN IF end > 0 /\ key.second.blockHeight > end
                 THEN [ok |-> TRUE, addressIndex |-> addressIndex, stop |-> SerializeKey(k)]
                 ELSE ReadAddressIndexLoop(store, cursor \ {k}, addressHash, end,
                          Append(addressIndex, [first |-> key.second, second |-> store[k]]))
            ELSE [ok |-> TRUE, addressIndex |-> addressIndex, stop |-> SerializeKey(k)]

\* ReadAddressIndex that seeks to the height start whenever start is given
ReadAddressIndexFromStart(store, addressHash, type, start, end) ==
    LET slKey == IF start > 0
                 THEN <<TagByte[DB_ADDRESSINDEX], type, addressHash, start>>
                 ELSE <<TagByte[DB_ADDRESSINDEX], type, addressHash>>
    IN ReadAddressIndexLoop(store, Seek(store, slKey), addressHash, end, <<>>)

\* CBlockTreeDB::ReadAddressIndex
ReadAddressIndex(store, addressHash, type, start, end) ==
    LET slKey == IF start > 0 /\ end > 0
                 THEN <<TagByte[DB_ADDRESSINDEX], type, addressHash, start>>
                 ELSE <<TagByte[DB_ADDRESSINDEX], type, addressHash>>
    IN ReadAddressIndexLoop(store, Seek(store, slKey), addressHash, end, <<>>)

RECURSIVE ReadAddressUnspentIndexLoop(_, _, _, _)
\* the loop of ReadAddressUnspentIndex
ReadAddressUnspentIndexLoop(store, cursor, addressHash, unspentOutputs) ==
    IF cursor = {} THEN [ok |-> TRUE, unspentOutputs |-> unspentOutputs, stop |-> NoKey]
    ELSE LET k == CursorKey(cursor)
             key == GetAddressUnspentKey(SerializeKey(k))
         IN IF key.ok /\ key.first = TagByte[DB_ADDRESSUNSPENTINDEX]
                    /\ key.second.hashBytes = addressHash
            THEN ReadAddressUnspentIndexLoop(store, cursor \ {k}, addressHash,
                     Append(unspentOutputs, [first |-> key.second, second |-> store[k]]))
            ELSE [ok |-> TRUE, unspentOutputs |-> unspentOutputs,
                  stop |-> SerializeKey(k)]

\* CBlockTreeDB::ReadAddressUnspentIndex
ReadAddressUnspentIndex(store, addressHash, type) ==
    ReadAddressUnspentIndexLoop(store,
        Seek(store, <<TagByte[DB_ADDRESSUNSPENTINDEX], type, addressHash>>), addressHash, <<>>)

\* CBlockTreeDB::ReadTxIndex: the key 't' is tried first, then the key 'T'
ReadTxIndex(store, txid) ==
    IF <<DB_TXINDEX, txid>> \in DOMAIN store
    THEN [found |-> TRUE, pos |-> store[<<DB_TXINDEX, txid>>]]
    ELSE IF <<DB_BARETXIDINDEX, txid>> \in DOMAIN store
    THEN [found |-> TRUE, pos |-> store[<<DB_BARETXIDINDEX, txid>>]]
    ELSE [found |-> FALSE]

\* CBlockTreeDB::ReadSpentIndex
ReadSpentIndex(store, key) ==
    IF <<DB_SPENTINDEX, key>> \in DOMAIN store
    THEN [found |-> TRUE, value |-> store[<<DB_SPENTINDEX, key>>]]
    ELSE [found |-> FALSE]

\* CBlockTreeDB::ReadReindexing: returns true, the flag is whether 'R' exists
ReadReindexing(store) == [ok |-> TRUE, fReindexing |-> Exists(store, ReindexKey)]

\* WriteReindexing that stores '0' under 'R' in place of erasing the key
WriteReindexingStoreZero(fReindexing) ==
    <<BatchPut(<<>>, ReindexKey, IF fReindexing THEN "1" ELSE "0")>>

\* CBlockTreeDB::WriteReindexing: the one operation it submits
WriteReindexingBuild(fReindexing) ==
    <<IF fReindexing THEN BatchPut(<<>>, ReindexKey, "1")
      ELSE BatchErase(<<>>, ReindexKey)>>

\* CBlockTreeDB::WriteReindexing
WriteReindexing ==
    \E fReindexing \in BOOLEAN :
        IndexCall("WriteReindexing", fReindexing, WriteReindexingBuild(fReindexing))

\* a read of the block tree database returns value
IndexRead(op, args, value) ==
    /\ ret = NoCall
    /\ batch = NoBatch
    /\ ret' = [op |-> op, args |-> args, value |-> value]
    /\ UNCHANGED <<mapBlockIndex, setStakeSeen, vDeployments, caches, dbVars>>

\* a reader calls CBlockTreeDB::ReadAddressIndex
CallReadAddressIndex ==
    \E addressHash \in AddressHashes, type \in AddressTypes, start, end \in RangeHeights :
        IndexRead("ReadAddressIndex",
                  [addressHash |-> addressHash, type |-> type, start |-> start, end |-> end],
                  ReadAddressIndex(blocktree, addressHash, type, start, end))

\* a reader calls CBlockTreeDB::ReadAddressUnspentIndex
CallReadAddressUnspentIndex ==
    \E addressHash \in AddressHashes, type \in AddressTypes :
        IndexRead("ReadAddressUnspentIndex", [addressHash |-> addressHash, type |-> type],
                  ReadAddressUnspentIndex(blocktree, addressHash, type))

\* a reader calls CBlockTreeDB::ReadTxIndex
CallReadTxIndex ==
    \E txid \in TxHashes :
        IndexRead("ReadTxIndex", [txid |-> txid], ReadTxIndex(blocktree, txid))

\* a reader calls CBlockTreeDB::ReadSpentIndex
CallReadSpentIndex ==
    \E key \in IndexKeys :
        IndexRead("ReadSpentIndex", [key |-> key], ReadSpentIndex(blocktree, key))

\* a reader calls CBlockTreeDB::ReadReindexing
CallReadReindexing == IndexRead("ReadReindexing", <<>>, ReadReindexing(blocktree))

\* CDiskBlockIndex::nBits of an entry any hash satisfies, and of an entry
\* whose target the hashes of the model are above
EasyBits == 4

HardBits == 1

\* Params().LAST_POW_BLOCK()
LAST_POW_BLOCK == 1

\* the heights stored in block index entries
DiskHeights == {0, 1, 2}

\* the block hashes an entry names as its predecessor; 0 is the null hash of
\* the genesis block
DiskPrevHashes == {0, 1}

\* the block hashes an entry names as its successor
DiskNextHashes == {0, 3}

\* the bit of nFlags that marks a proof-of-stake block
BLOCK_PROOF_OF_STAKE == 1

\* CDiskBlockIndex: a block index entry as it is stored; these are the entries
\* of proof-of-work blocks, which have no stake
CDiskBlockIndex ==
    [hashPrev : DiskPrevHashes, nBits : {EasyBits, HardBits},
     nHeight : DiskHeights, hashNext : DiskNextHashes,
     nFlags : {0}, prevoutStake : {0}, nStakeTime : {0}]

\* the outputs staked by the proof-of-stake blocks
StakedOutputs == {1, 2}

\* the entries of proof-of-stake blocks, at LAST_POW_BLOCK and above it
StakeDiskBlockIndex ==
    [hashPrev : DiskPrevHashes, nBits : {EasyBits, HardBits},
     nHeight : {LAST_POW_BLOCK, LAST_POW_BLOCK + 1}, hashNext : {0},
     nFlags : {BLOCK_PROOF_OF_STAKE}, prevoutStake : StakedOutputs, nStakeTime : {1}]

\* CBlockIndex::IsProofOfStake
IsProofOfStake(pindex) == pindex.nFlags = BLOCK_PROOF_OF_STAKE

\* a stored value that was cut short: reading the entry from it runs off the
\* end of the stream, which throws a std::exception
TruncatedValue == [truncated |-> TRUE]

\* ssValue >> diskindex succeeds
Unserializes(slValue) == "truncated" \notin DOMAIN slValue

\* CDiskBlockIndex::GetBlockHash: the hash of the block header, which holds
\* hashPrev and nBits; two headers that differ have different hashes, and no
\* header holds its own hash
GetBlockHash(diskindex) ==
    2 * diskindex.hashPrev + (IF diskindex.nBits = EasyBits THEN 1 ELSE 2)

\* CheckProofOfWork(hash, nBits, params): the hash is not above the target
CheckProofOfWork(hash, nBits) == hash <= nBits

\* CBlockIndex as InsertBlockIndex creates it: null pointers, zero fields
NewBlockIndex ==
    [pprev |-> 0, pnext |-> 0, nHeight |-> 0, nBits |-> 0,
     nFlags |-> 0, prevoutStake |-> 0, nStakeTime |-> 0]

\* InsertBlockIndex(hash): the entry of the hash is looked up, and created when
\* the block index has none; the null hash has no entry (a null pointer)
InsertBlockIndexHash(map, hash) ==
    IF hash = 0 \/ hash \in DOMAIN map THEN map
    ELSE (hash :> NewBlockIndex) @@ map

\* LoadEntry that links pprev to hashNext and pnext to hashPrev
LoadEntrySwapped(map, pindexNew, diskindex) ==
    [map EXCEPT ![pindexNew] =
        [pprev |-> diskindex.hashNext, pnext |-> diskindex.hashPrev,
         nHeight |-> diskindex.nHeight, nBits |-> diskindex.nBits,
         nFlags |-> diskindex.nFlags, prevoutStake |-> diskindex.prevoutStake,
         nStakeTime |-> diskindex.nStakeTime]]

\* the assignments of LoadBlockIndexGuts to pindexNew
LoadEntry(map, pindexNew, diskindex) ==
    [map EXCEPT ![pindexNew] =
        [pprev |-> diskindex.hashPrev, pnext |-> diskindex.hashNext,
         nHeight |-> diskindex.nHeight, nBits |-> diskindex.nBits,
         nFlags |-> diskindex.nFlags, prevoutStake |-> diskindex.prevoutStake,
         nStakeTime |-> diskindex.nStakeTime]]

\* CBlockTreeDB::WriteBlockIndex: the one operation it submits
WriteBlockIndexBuild(blockindex) ==
    <<BatchPut(<<>>, <<"b", GetBlockHash(blockindex)>>, blockindex)>>

\* CBlockTreeDB::WriteBlockIndex
WriteBlockIndex ==
    \E blockindex \in CDiskBlockIndex :
        IndexCall("WriteBlockIndex", blockindex, WriteBlockIndexBuild(blockindex))

\* CBlockTreeDB::WriteBlockIndex for a proof-of-stake block
WriteStakeBlockIndex ==
    \E blockindex \in StakeDiskBlockIndex :
        IndexCall("WriteBlockIndex", blockindex, WriteBlockIndexBuild(blockindex))

\* the writes and reads of a node that maintains one of the indexes of the
\* block tree database, or the reindexing flag; one block index entry is
\* written after the address index
NextIndex ==
    \/ (OnlyTags({DB_TXINDEX, DB_BARETXIDINDEX}) /\ WriteTxIndex)
    \/ (OnlyTags({DB_ADDRESSUNSPENTINDEX}) /\ UpdateAddressUnspentIndex)
    \/ (OnlyTags({DB_SPENTINDEX}) /\ UpdateSpentIndex)
    \/ (OnlyTags({DB_ADDRESSINDEX}) /\ WriteAddressIndex)
    \/ (OnlyTags({DB_ADDRESSINDEX}) /\ EraseAddressIndex)
    \/ (OnlyTags({"R"}) /\ WriteReindexing)
    \/ (OnlyTags({DB_ADDRESSINDEX}) /\ WriteBlockIndex)
    \/ WriteBatch
    \/ CallReadTxIndex
    \/ CallReadSpentIndex
    \/ CallReadAddressIndex
    \/ CallReadAddressUnspentIndex
    \/ CallReadReindexing
    \/ Return

SpecIndex == InitCoins /\ [][NextIndex]_vars

----------------------------------------------------------------------------
\* CBlockTreeDB::LoadBlockIndexGuts: the block index is rebuilt from the
\* database. Here mapBlockIndex maps a block hash to its CBlockIndex, and a
\* pointer to a CBlockIndex is the hash it is interned under

\* the three calls of InsertBlockIndex for an entry: its own hash, hashPrev
\* and hashNext
InternEntry(map, diskindex) ==
    InsertBlockIndexHash(
        InsertBlockIndexHash(
            InsertBlockIndexHash(map, GetBlockHash(diskindex)), diskindex.hashPrev),
        diskindex.hashNext)

\* setStakeSeen.insert for the entry of a proof-of-stake block
InsertStakeSeen(stakeSeen, pindex) ==
    IF IsProofOfStake(pindex)
    THEN stakeSeen \cup {<<pindex.prevoutStake, pindex.nStakeTime>>}
    ELSE stakeSeen

RECURSIVE LoadBlockIndexGutsLoopBelow(_, _, _, _)
\* LoadBlockIndexGutsLoop that checks the proof of work of the entries below
\* LAST_POW_BLOCK only, not of the entry at that height
LoadBlockIndexGutsLoopBelow(store, cursor, map, stakeSeen) ==
    IF cursor = {} THEN [ok |-> TRUE, mapBlockIndex |-> map, setStakeSeen |-> stakeSeen]
    ELSE LET k == CursorKey(cursor)
             chType == SerializeKey(k)[1]
         IN IF chType # TagByte["b"]
            THEN [ok |-> TRUE, mapBlockIndex |-> map, setStakeSeen |-> stakeSeen]
            ELSE IF ~Unserializes(store[k])
            THEN [ok |-> FALSE, mapBlockIndex |-> map, setStakeSeen |-> stakeSeen]
            ELSE LET diskindex == store[k]
                     pindexNew == GetBlockHash(diskindex)
                     loaded == LoadEntry(InternEntry(map, diskindex), pindexNew, diskindex)
                 IN IF diskindex.nHeight < LAST_POW_BLOCK
                        /\ ~CheckProofOfWork(pindexNew, diskindex.nBits)
                    THEN [ok |-> FALSE, mapBlockIndex |-> loaded,
                          setStakeSeen |-> stakeSeen]
                    ELSE LoadBlockIndexGutsLoopBelow(store, cursor \ {k}, loaded,
                             InsertStakeSeen(stakeSeen, loaded[pindexNew]))

RECURSIVE LoadBlockIndexGutsLoopRollback(_, _, _, _)
\* LoadBlockIndexGutsLoop that undoes what it has inserted when it fails
LoadBlockIndexGutsLoopRollback(store, cursor, map, stakeSeen) ==
    IF cursor = {} THEN [ok |-> TRUE, mapBlockIndex |-> map, setStakeSeen |-> stakeSeen]
    ELSE LET k == CursorKey(cursor)
             chType == SerializeKey(k)[1]
         IN IF chType # TagByte["b"]
            THEN [ok |-> TRUE, mapBlockIndex |-> map, setStakeSeen |-> stakeSeen]
            ELSE IF ~Unserializes(store[k])
            THEN [ok |-> FALSE, mapBlockIndex |-> <<>>, setStakeSeen |-> {}]
            ELSE LET diskindex == store[k]
                     pindexNew == GetBlockHash(diskindex)
                     loaded == LoadEntry(InternEntry(map, diskindex), pindexNew, diskindex)
                 IN IF diskindex.nHeight <= LAST_POW_BLOCK
                        /\ ~CheckProofOfWork(pindexNew, diskindex.nBits)
                    THEN [ok |-> FALSE, mapBlockIndex |-> <<>>, setStakeSeen |-> {}]
                    ELSE LoadBlockIndexGutsLoopRollback(store, cursor \ {k}, loaded,
                             InsertStakeSeen(stakeSeen, loaded[pindexNew]))

RECURSIVE LoadBlockIndexGutsLoop(_, _, _, _)
\* the loop of LoadBlockIndexGuts over the keys from ('b', 0) on: every 'b'
\* entry is interned, linked to its predecessor and successor, its fields are
\* copied, its proof of work is checked up to LAST_POW_BLOCK, and its stake is
\* put into setStakeSeen; the loop ends at the first key of another tag, and
\* an entry that cannot be read or fails the check ends the call with an error
LoadBlockIndexGutsLoop(store, cursor, map, stakeSeen) ==
    IF cursor = {} THEN [ok |-> TRUE, mapBlockIndex |-> map, setStakeSeen |-> stakeSeen]
    ELSE LET k == CursorKey(cursor)
             chType == SerializeKey(k)[1]
         IN IF chType # TagByte["b"]
            THEN [ok |-> TRUE, mapBlockIndex |-> map, setStakeSeen |-> stakeSeen]
            ELSE IF ~Unserializes(store[k])
            THEN [ok |-> FALSE, mapBlockIndex |-> map, setStakeSeen |-> stakeSeen]
            ELSE LET diskindex == store[k]
                     pindexNew == GetBlockHash(diskindex)
                     loaded == LoadEntry(InternEntry(map, diskindex), pindexNew, diskindex)
                 IN IF diskindex.nHeight <= LAST_POW_BLOCK
                        /\ ~CheckProofOfWork(pindexNew, diskindex.nBits)
                    THEN [ok |-> FALSE, mapBlockIndex |-> loaded,
                          setStakeSeen |-> stakeSeen]
                    ELSE LoadBlockIndexGutsLoop(store, cursor \ {k}, loaded,
                             InsertStakeSeen(stakeSeen, loaded[pindexNew]))

\* CBlockTreeDB::LoadBlockIndexGuts, called at startup on the empty block index
LoadBlockIndexGuts ==
    /\ ret = NoCall
    /\ batch = NoBatch
    /\ mapBlockIndex = <<>>
    /\ LET r == LoadBlockIndexGutsLoop(blocktree, Seek(blocktree, <<TagByte["b"], 0>>),
                                       mapBlockIndex, setStakeSeen)
       IN /\ mapBlockIndex' = r.mapBlockIndex
          /\ setStakeSeen' = r.setStakeSeen
          /\ ret' = [op |-> "LoadBlockIndexGuts", value |-> r.ok]
    /\ UNCHANGED <<vDeployments, caches, dbVars>>

\* block index entries and the reindexing flag are written and the flag is
\* read, and at the next start the block index is loaded
NextLoad ==
    \/ (mapBlockIndex = <<>> /\ WriteBlockIndex)
    \/ (mapBlockIndex = <<>> /\ WriteReindexing)
    \/ WriteBatch
    \/ CallReadReindexing
    \/ LoadBlockIndexGuts
    \/ Return

SpecLoad == InitCoins /\ [][NextLoad]_vars

\* the keys of the block index entries in the database
BlockIndexKeys == {k \in DOMAIN blocktree : k[1] = "b"}

\* the value of a stored block index entry is cut short on the disk
TruncateRecord ==
    /\ ret = NoCall
    /\ batch = NoBatch
    /\ mapBlockIndex = <<>>
    /\ \E k \in BlockIndexKeys :
          /\ Unserializes(blocktree[k])
          /\ blocktree' = [blocktree EXCEPT ![k] = TruncatedValue]
    /\ UNCHANGED <<mapBlockIndex, setStakeSeen, vDeployments, caches, ret, db, batch, pcursor>>

\* the tx index is written, whose keys 'T' and 't' lie on either side of the
\* keys 'b'; then up to two block index entries, of proof-of-work and of
\* proof-of-stake blocks, are written, and the value of one may be cut short;
\* at the next start the block index is loaded
NextStartup ==
    \/ (mapBlockIndex = <<>> /\ blocktree = EmptyStore /\ WriteTxIndex)
    \/ (mapBlockIndex = <<>> /\ Cardinality(BlockIndexKeys) < 2 /\ WriteBlockIndex)
    \/ (mapBlockIndex = <<>> /\ Cardinality(BlockIndexKeys) < 2 /\ WriteStakeBlockIndex)
    \/ TruncateRecord
    \/ WriteBatch
    \/ LoadBlockIndexGuts
    \/ Return

SpecStartup == InitCoins /\ [][NextStartup]_vars

----------------------------------------------------------------------------
\* CCoinsViewDB::GetStats

\* the heights a read through an iterator that points at no entry may yield
StrayHeights == {0, 9}

\* CCoinsStats as it is constructed: every count zero
NewCoinsStats ==
    [hashBlock |-> 0, nHeight |-> 0, nTransactions |-> 0, nTransactionOutputs |-> 0,
     nTotalAmount |-> 0, ss |-> <<>>]

RECURSIVE GetStatsOutputs(_, _, _)
\* the loop over coins.vout from output i on: an output that is not null is
\* counted, hashed with its index plus one, and its value added
GetStatsOutputs(vout, i, stats) ==
    IF i > Len(vout) THEN stats
    ELSE IF vout[i] # OutNull
         THEN GetStatsOutputs(vout, i + 1,
                  [stats EXCEPT !.nTransactionOutputs = @ + 1,
                                !.ss = @ \o <<i, vout[i]>>,
                                !.nTotalAmount = @ + vout[i]])
         ELSE GetStatsOutputs(vout, i + 1, stats)

RECURSIVE GetStatsLoop(_, _, _)
\* the scan of GetStats over the keys the iterator has still to visit: a 'c'
\* record is counted and hashed with its outputs, any other key is passed
\* over (the version, the coinbase flag, the height and the serialized size
\* of a record are left out)
GetStatsLoop(store, cursor, stats) ==
    IF cursor = {} THEN stats
    ELSE LET k == CursorKey(cursor)
         IN IF k[1] = "c"
            THEN LET counted == [stats EXCEPT !.nTransactions = @ + 1,
                                              !.ss = @ \o <<k[2]>>]
                     outputs == GetStatsOutputs(store[k].vout, 1, counted)
                 IN GetStatsLoop(store, cursor \ {k}, [outputs EXCEPT !.ss = @ \o <<0>>])
            ELSE GetStatsLoop(store, cursor \ {k}, stats)

\* the statistics GetStats has gathered when it looks up the height
GetStatsScan(store) ==
    GetStatsLoop(store, Seek(store, <<>>),
                 [NewCoinsStats EXCEPT !.hashBlock = GetBestBlock(store),
                                       !.ss = <<GetBestBlock(store)>>])

\* what GetStats may do after the scan: it returns true with the statistics
\* and the height of the best block's entry of the block index; when the
\* block index has no entry for the best block the iterator that find
\* returns is dereferenced all the same, and the call faults or returns with
\* a stray height
GetStatsLookup(stats, map) ==
    IF stats.hashBlock \in DOMAIN map
    THEN {[returned |-> TRUE, value |-> TRUE,
           stats |-> [stats EXCEPT !.nHeight = map[stats.hashBlock].nHeight]]}
    ELSE {[returned |-> FALSE]}
         \cup {[returned |-> TRUE, value |-> TRUE, stats |-> [stats EXCEPT !.nHeight = h]] :
                  h \in StrayHeights}

\* what a call of CCoinsViewDB::GetStats may do
GetStats(store, map) == GetStatsLookup(GetStatsScan(store), map)

\* a caller calls CCoinsViewDB::GetStats
CallGetStats ==
    /\ ret = NoCall
    /\ batch = NoBatch
    /\ \E outcome \in GetStats(db, mapBlockIndex) :
          ret' = [op |-> "GetStats", outcome |-> outcome]
    /\ UNCHANGED <<mapBlockIndex, setStakeSeen, vDeployments, caches, dbVars>>

\* a call that has faulted has ended the process
Running == ret.op = "GetStats" => ret.outcome.returned

\* the chainstate is written, one block index entry is written and the block
\* index is loaded at the next start; the statistics are asked for at any
\* time between two calls
NextCoinStats ==
    \/ (blocktree = EmptyStore /\ mapBlockIndex = <<>> /\ BatchWrite)
    \/ (blocktree = EmptyStore /\ mapBlockIndex = <<>> /\ WriteBlockIndex)
    \/ WriteBatch
    \/ LoadBlockIndexGuts
    \/ CallGetStats
    \/ (Running /\ Return)

SpecCoinStats == InitCoins /\ [][NextCoinStats]_vars

----------------------------------------------------------------------------
\* The iterations step by step, and the interruption of their thread: every
\* pass of a loop begins with boost::this_thread::interruption_point(), which
\* throws boost::thread_interrupted when the interruption of the thread has
\* been requested; no handler of these functions catches it

\* a call that iterates begins: the iterator is created and placed
BeginIteration(op, args, cursor, result) ==
    /\ ret = NoCall
    /\ batch = NoBatch
    /\ pcursor = NoIteration
    /\ pcursor' = [op |-> op, args |-> args, cursor |-> cursor, result |-> result,
                   interruption_requested |-> FALSE]
    /\ UNCHANGED <<mapBlockIndex, setStakeSeen, vDeployments, caches, ret, db, blocktree, batch>>

\* CCoinsViewDB::GetStats begins: SeekToFirst, and the best block is read
BeginGetStats ==
    BeginIteration("GetStats", <<>>, Seek(db, <<>>),
                   [NewCoinsStats EXCEPT !.hashBlock = GetBestBlock(db),
                                         !.ss = <<GetBestBlock(db)>>])

\* CBlockTreeDB::ReadAddressIndex begins: the seek of the iterator
BeginReadAddressIndex ==
    \E addressHash \in AddressHashes, type \in AddressTypes, start, end \in RangeHeights :
        BeginIteration("ReadAddressIndex",
            [addressHash |-> addressHash, type |-> type, start |-> start, end |-> end],
            Seek(blocktree, IF start > 0 /\ end > 0
                            THEN <<TagByte[DB_ADDRESSINDEX], type, addressHash, start>>
                            ELSE <<TagByte[DB_ADDRESSINDEX], type, addressHash>>),
            <<>>)

\* CBlockTreeDB::ReadAddressUnspentIndex begins
BeginReadAddressUnspentIndex ==
    \E addressHash \in AddressHashes, type \in AddressTypes :
        BeginIteration("ReadAddressUnspentIndex",
            [addressHash |-> addressHash, type |-> type],
            Seek(blocktree, <<TagByte[DB_ADDRESSUNSPENTINDEX], type, addressHash>>),
            <<>>)

\* CBlockTreeDB::LoadBlockIndexGuts begins, at startup on the empty block
\* index; what it loads goes to mapBlockIndex
BeginLoadBlockIndexGuts ==
    /\ mapBlockIndex = <<>>
    /\ BeginIteration("LoadBlockIndexGuts", <<>>, Seek(blocktree, <<TagByte["b"], 0>>), <<>>)

\* one pass of the loop of an iteration on the key under the iterator, after
\* its interruption point: whether the loop is left, the value the function
\* then returns, the result, the block index and the stakes seen after the pass
IterationBody(it, map, stakeSeen) ==
    LET k == CursorKey(it.cursor)
    IN CASE it.op = "GetStats" ->
              [break |-> FALSE, value |-> TRUE,
               result |-> GetStatsLoop(db, {k}, it.result), mapBlockIndex |-> map,
               setStakeSeen |-> stakeSeen]
         [] it.op = "ReadAddressIndex" ->
              LET r == ReadAddressIndexLoop(blocktree, {k}, it.args.addressHash,
                                            it.args.end, it.result)
              IN [break |-> r.stop # NoKey, value |-> r.ok,
                  result |-> r.addressIndex, mapBlockIndex |-> map,
                  setStakeSeen |-> stakeSeen]
         [] it.op = "ReadAddressUnspentIndex" ->
              LET r == ReadAddressUnspentIndexLoop(blocktree, {k}, it.args.addressHash,
                                                   it.result)
              IN [break |-> r.stop # NoKey, value |-> r.ok,
                  result |-> r.unspentOutputs, mapBlockIndex |-> map,
                  setStakeSeen |-> stakeSeen]
         [] it.op = "LoadBlockIndexGuts" ->
              LET r == LoadBlockIndexGutsLoop(blocktree, {k}, map, stakeSeen)
              IN [break |-> SerializeKey(k)[1] # TagByte["b"] \/ ~r.ok, value |-> r.ok,
                  result |-> it.result, mapBlockIndex |-> r.mapBlockIndex,
                  setStakeSeen |-> r.setStakeSeen]

\* how a call ends once its loop is left: the reads and the load return, and
\* GetStats looks up the height of the best block
IterationEnds(it, value, result, map) ==
    IF it.op = "GetStats"
    THEN {[op |-> it.op, args |-> it.args,
           end |-> IF o.returned THEN "returned" ELSE "fault", value |-> o.returned,
           result |-> IF o.returned THEN o.stats ELSE result] :
              o \in GetStatsLookup(result, map)}
    ELSE {[op |-> it.op, args |-> it.args, end |-> "returned", value |-> value,
           result |-> result]}

\* a call left by boost::thread_interrupted: nothing is returned, and what the
\* passes before have put into the result stays there
IterationInterrupted(it) ==
    [op |-> it.op, args |-> it.args, end |-> "thread_interrupted", value |-> FALSE,
     result |-> it.result]

\* IterationStep that polls the interruption after the pass, not before it
IterationStepPollsLate ==
    /\ ret = NoCall
    /\ pcursor # NoIteration
    /\ IF pcursor.cursor = {}
       THEN /\ ret' \in IterationEnds(pcursor, TRUE, pcursor.result, mapBlockIndex)
            /\ pcursor' = NoIteration
            /\ UNCHANGED <<mapBlockIndex, setStakeSeen>>
       ELSE LET b == IterationBody(pcursor, mapBlockIndex, setStakeSeen)
            IN /\ mapBlockIndex' = b.mapBlockIndex
               /\ setStakeSeen' = b.setStakeSeen
               /\ IF pcursor.interruption_requested
                  THEN /\ ret' = IterationInterrupted([pcursor EXCEPT !.result = b.result])
                       /\ pcursor' = NoIteration
                  ELSE IF b.break
                  THEN /\ ret' \in IterationEnds(pcursor, b.value, b.result, b.mapBlockIndex)
                       /\ pcursor' = NoIteration
                  ELSE /\ ret' = ret
                       /\ pcursor' = [pcursor EXCEPT !.cursor = @ \ {CursorKey(@)},
                                                     !.result = b.result]
    /\ UNCHANGED <<vDeployments, caches, db, blocktree, batch>>

\* the next step of the iteration in progress: the loop is left when the
\* iterator is not valid; otherwise the interruption point is passed, or
\* throws, and the body of the loop runs on the key under the iterator
IterationStep ==
    /\ ret = NoCall
    /\ pcursor # NoIteration
    /\ IF pcursor.cursor = {}
       THEN /\ ret' \in IterationEnds(pcursor, TRUE, pcursor.result, mapBlockIndex)
            /\ pcursor' = NoIteration
            /\ UNCHANGED <<mapBlockIndex, setStakeSeen>>
       ELSE IF pcursor.interruption_requested
       THEN /\ ret' = IterationInterrupted(pcursor)
            /\ pcursor' = NoIteration
            /\ UNCHANGED <<mapBlockIndex, setStakeSeen>>
       ELSE LET b == IterationBody(pcursor, mapBlockIndex, setStakeSeen)
            IN /\ mapBlockIndex' = b.mapBlockIndex
               /\ setStakeSeen' = b.setStakeSeen
               /\ IF b.break
                  THEN /\ ret' \in IterationEnds(pcursor, b.value, b.result, b.mapBlockIndex)
                       /\ pcursor' = NoIteration
                  ELSE /\ ret' = ret
                       /\ pcursor' = [pcursor EXCEPT !.cursor = @ \ {CursorKey(@)},
                                                     !.result = b.result]
    /\ UNCHANGED <<vDeployments, caches, db, blocktree, batch>>

\* another thread requests the interruption of the thread that iterates
Interrupt ==
    /\ pcursor # NoIteration
    /\ ~pcursor.interruption_requested
    /\ pcursor' = [pcursor EXCEPT !.interruption_requested = TRUE]
    /\ UNCHANGED <<mapBlockIndex, setStakeSeen, vDeployments, caches, ret, db, blocktree, batch>>

\* a call that has faulted has ended the process
NoFault == ret.op = "GetStats" => ret.end # "fault"

\* no iteration is in progress (the callers hold the chain-state lock)
Idle == pcursor = NoIteration

\* one of the databases is filled: the address index or the address unspent
\* index by one call, the block index by two, the chainstate by one flush
\* (on its own, or after a block index of one entry is loaded); then the
\* iterations run, and the interruption of their thread may be requested at
\* any step
NextInterrupt ==
    \/ (Idle /\ blocktree = EmptyStore /\ db = EmptyStore /\ WriteAddressIndex)
    \/ (Idle /\ blocktree = EmptyStore /\ db = EmptyStore /\ UpdateAddressUnspentIndex)
    \/ (Idle /\ OnlyTags({"b"}) /\ Cardinality(DOMAIN blocktree) < 2 /\ db = EmptyStore
            /\ mapBlockIndex = <<>> /\ WriteBlockIndex)
    \/ (Idle /\ db = EmptyStore
            /\ (blocktree = EmptyStore
                  \/ (mapBlockIndex # <<>> /\ Cardinality(DOMAIN blocktree) = 1))
            /\ BatchWrite)
    \/ WriteBatch
    \/ BeginGetStats
    \/ BeginReadAddressIndex
    \/ BeginReadAddressUnspentIndex
    \/ BeginLoadBlockIndexGuts
    \/ IterationStep
    \/ Interrupt
    \/ (NoFault /\ Return)

SpecInterrupt == InitCoins /\ [][NextInterrupt]_vars

----------------------------------------------------------------------------
\* Properties

\* the state UpdateCacheState returns for p when it starts from an empty cache
Recomputed(p, bip) == UpdateCacheState(p, EmptyCache, bip).state

\* the blocks that end a period of the deployment (the aligned ancestors)
AlignedBlocks(bip) == {p \in Blocks : (nHeight(p) + 1) % bip.nPeriod = 0}

\* the cache the deployment's queries use
CacheOf(bip) == caches[bip.bit]

\* C1: whatever queries came before on the shared cache, the state a
\* VersionBitsState call returns equals the state recomputed from an empty cache
C1_MemoizedEqualsRecomputed ==
    ret.op = "VersionBitsState" => ret.value = Recomputed(ret.pindexPrev, ret.bip)

\* C1 happens: a call answered LOCKED_IN for a block below one that an earlier
\* query had already cached
C1_Witness ==
    /\ ret.op = "VersionBitsState"
    /\ ret.value = LOCKED_IN
    /\ LET a == AlignedAncestor(ret.pindexPrev, ret.bip)
       IN /\ a # NULL
          /\ \E k \in DOMAIN CacheOf(ret.bip) \ {NULL} : nHeight(k) > nHeight(a)

NoneBeforeStart(a, b, bip) ==
    \A h \in (nHeight(a) + 1)..nHeight(b) :
        (h + 1) % bip.nPeriod = 0 => GetMedianTimePast(GetAncestor(b, h)) >= bip.nStartTime

RetIdx == AlignedAncestor(ret.pindexPrev, ret.bip)

\* the last call was VersionBitsState, for a period that follows a block
RetAtBlock ==
    /\ ret.op = "VersionBitsState"
    /\ ret.bip.nStartTime # ALWAYS_ACTIVE
    /\ RetIdx # NULL

\* the state of the period before the one of the last call
RetPredState ==
    Recomputed(GetAncestor(RetIdx, nHeight(RetIdx) - ret.bip.nPeriod), ret.bip)

\* the number of blocks that signal among the nPeriod blocks ending at idx
SignalCount(idx, bip) ==
    Cardinality({h \in (nHeight(idx) - bip.nPeriod + 1)..nHeight(idx) :
                    Condition(GetAncestor(idx, h), bip)})

C4_TimeoutBeforeLockIn ==
    (RetAtBlock /\ RetPredState = STARTED
        /\ GetMedianTimePast(RetIdx) >= ret.bip.nTimeout) =>
        ret.value = FAILED

\* C4 happens: the period fails although its signal count reaches the threshold
C4_Witness ==
    /\ RetAtBlock /\ RetPredState = STARTED
    /\ GetMedianTimePast(RetIdx) >= ret.bip.nTimeout
    /\ SignalCount(RetIdx, ret.bip) >= ret.bip.threshold
    /\ ret.value = FAILED

\* C5: after a DEFINED period the state is FAILED at or after the timeout,
\* STARTED from the start time up to the timeout, and DEFINED before
C5_FromDefined ==
    (RetAtBlock /\ RetPredState = DEFINED) =>
        ret.value = (IF GetMedianTimePast(RetIdx) >= ret.bip.nTimeout THEN FAILED
                     ELSE IF GetMedianTimePast(RetIdx) >= ret.bip.nStartTime THEN STARTED
                     ELSE DEFINED)

\* C5 happens: FAILED straight from DEFINED, with the block past both times
C5_Witness ==
    /\ RetAtBlock /\ RetPredState = DEFINED
    /\ GetMedianTimePast(RetIdx) >= ret.bip.nStartTime
    /\ GetMedianTimePast(RetIdx) >= ret.bip.nTimeout
    /\ ret.value = FAILED

C7_AlwaysActive ==
    [][(ret.op = "none" /\ ret'.op = "VersionBitsState"
            /\ ret'.bip.nStartTime = ALWAYS_ACTIVE) =>
        (ret'.value = ACTIVE /\ caches' = caches)]_vars

\* C7 happens: ACTIVE was returned for the null pointer and the cache is empty
C7_Witness ==
    /\ ret.op = "VersionBitsState"
    /\ ret.bip.nStartTime = ALWAYS_ACTIVE
    /\ ret.pindexPrev = NULL
    /\ ret.value = ACTIVE
    /\ Len(mapBlockIndex) > 0
    /\ CacheOf(ret.bip) = EmptyCache

\* C8: every key of a cache is the null pointer, mapped to DEFINED, or the last
\* block of a period
C8_CacheKeysAligned ==
    \A bip \in vDeployments :
        \A k \in DOMAIN CacheOf(bip) :
            IF k = NULL THEN CacheOf(bip)[k] = DEFINED
            ELSE (nHeight(k) + 1) % bip.nPeriod = 0

\* C8 happens: StartingHeightOfBlockIndexState was called for a block in the
\* middle of a two-block period and the cache holds the null pointer and two blocks
C8_Witness ==
    /\ ret.op = "VersionBitsStateSinceHeight"
    /\ ret.bip.nPeriod = 2
    /\ ret.pindexPrev # NULL
    /\ (nHeight(ret.pindexPrev) + 1) % ret.bip.nPeriod # 0
    /\ ret.value > 0
    /\ NULL \in DOMAIN CacheOf(ret.bip)
    /\ Cardinality(DOMAIN CacheOf(ret.bip)) >= 3

\* the height of a block pointer, -1 for the null pointer
HeightOf(p) == IF p = NULL THEN -1 ELSE nHeight(p)

\* both pointers lie in the same period of the deployment
SamePeriod(p, q, bip) ==
    (HeightOf(p) + 1) \div bip.nPeriod = (HeightOf(q) + 1) \div bip.nPeriod

\* the state a VersionBitsState call for q would return now
WouldReturn(q, bip) == UpdateCacheState(q, CacheOf(bip), bip).state

\* C9: a call for any pointer of the same period returns the state the last
\* call returned; the null pointer and the blocks below height nPeriod - 1 give DEFINED
C9_SamePeriodSameState ==
    ret.op = "VersionBitsState" =>
        /\ \A q \in BlockPtrs :
              SamePeriod(q, ret.pindexPrev, ret.bip) => WouldReturn(q, ret.bip) = ret.value
        /\ HeightOf(ret.pindexPrev) < ret.bip.nPeriod - 1 => ret.value = DEFINED

\* C9 (amended): the same, with ACTIVE in place of DEFINED for an always active
\* deployment
C9_SamePeriodSameStateOrActive ==
    ret.op = "VersionBitsState" =>
        /\ \A q \in BlockPtrs :
              SamePeriod(q, ret.pindexPrev, ret.bip) => WouldReturn(q, ret.bip) = ret.value
        /\ HeightOf(ret.pindexPrev) < ret.bip.nPeriod - 1 =>
              ret.value = (IF ret.bip.nStartTime = ALWAYS_ACTIVE THEN ACTIVE ELSE DEFINED)

\* C9 happens: a call for a block in the middle of a two-block period returned
\* STARTED, and the last block of the period before is another pointer of its period
C9_Witness ==
    /\ ret.op = "VersionBitsState"
    /\ ret.bip.nStartTime # ALWAYS_ACTIVE
    /\ ret.bip.nPeriod = 2
    /\ ret.pindexPrev # NULL
    /\ RetIdx # NULL
    /\ RetIdx # ret.pindexPrev
    /\ ret.value = STARTED

\* C10: with the caches as they are, a query for any configured deployment
\* returns what it returns from empty caches, whatever was queried before for
\* the other deployments
C10_PerDeployment ==
    \A bip \in vDeployments :
        \A p \in BlockPtrs :
            /\ WouldReturn(p, bip) = Recomputed(p, bip)
            /\ StartingHeightOfBlockIndexState(p, CacheOf(bip), bip).height
                 = StartingHeightOfBlockIndexState(p, EmptyCache, bip).height

\* the block at height h of the chain
AtHeight(h) == h + 1

\* the chain has the scenario's thirty blocks, with median time past 50, 150 and
\* 200 at the aligned heights 9, 19 and 29
ScenarioTimes ==
    /\ Len(mapBlockIndex) >= 30
    /\ GetMedianTimePast(AtHeight(9)) = 50
    /\ GetMedianTimePast(AtHeight(19)) = 150
    /\ GetMedianTimePast(AtHeight(29)) = 200

\* the states the scenario names: DEFINED at the aligned height 9, STARTED at
\* 19, LOCKED_IN at 29 and ACTIVE for the period after
ScenarioStates ==
    /\ RetIdx = AtHeight(9) => ret.value = DEFINED
    /\ RetIdx = AtHeight(19) => ret.value = STARTED
    /\ RetIdx = AtHeight(29) => ret.value = LOCKED_IN
    /\ RetIdx = AtHeight(39) => ret.value = ACTIVE

\* C11: in the activation scenario, with 8 of the 10 blocks at heights 10..19
\* signalling, the state is DEFINED at the aligned height 9, STARTED at 19,
\* LOCKED_IN at 29 and ACTIVE for the period after
C11_ActivationScenario ==
    (ret.op = "VersionBitsState" /\ ScenarioTimes
        /\ SignalCount(AtHeight(19), ret.bip) = 8) => ScenarioStates

\* C11 (amended): the same with 8 of the 10 blocks at heights 20..29 signalling
\* (the period that ends at the aligned block 29), whatever the blocks at
\* heights 10..19 signal
C11_ActivationScenarioCountedPeriod ==
    (ret.op = "VersionBitsState" /\ ScenarioTimes
        /\ SignalCount(AtHeight(29), ret.bip) = 8) => ScenarioStates

\* C11 happens: ACTIVE was returned at the aligned height 39 of a chain where 8
\* blocks of heights 20..29 signal and none of heights 10..19 does
C11_Witness ==
    /\ ret.op = "VersionBitsState" /\ ScenarioTimes
    /\ Len(mapBlockIndex) = 40
    /\ SignalCount(AtHeight(29), ret.bip) = 8
    /\ SignalCount(AtHeight(19), ret.bip) = 0
    /\ ret.pindexPrev = AtHeight(39)
    /\ ret.value = ACTIVE
    /\ CacheOf(ret.bip)[AtHeight(29)] = LOCKED_IN

\* the height of the end of the period before p's: the height of the ancestor
\* at nHeight - ((nHeight + 1) % nPeriod), -1 for the parent of the genesis block
EndOfPrevPeriodHeight(p, bip) == nHeight(p) - ((nHeight(p) + 1) % bip.nPeriod)

\* the statistics the claim describes for the block p
ExpectedStats(p, bip) ==
    LET elapsed == nHeight(p) - EndOfPrevPeriodHeight(p, bip)
        count == Cardinality({h \in (EndOfPrevPeriodHeight(p, bip) + 1)..nHeight(p) :
                                 Condition(GetAncestor(p, h), bip)})
    IN [period |-> bip.nPeriod, threshold |-> bip.threshold,
        elapsed |-> elapsed, count |-> count,
        possible |-> (bip.nPeriod - bip.threshold) >= (elapsed - count)]

\* C12: for every block, those of the first period included,
\* GetStateStatisticsFor returns the period, the threshold, the blocks elapsed
\* since the end of the period before, the signalling blocks among them, and
\* whether the threshold can still be reached
C12_Statistics ==
    (ret.op = "GetStateStatisticsFor" /\ ret.pindexPrev # NULL) =>
        /\ ret.outcome = "returned"
        /\ ret.value = ExpectedStats(ret.pindexPrev, ret.bip)

\* C12 from the end of the first period on: the same for the blocks at height
\* nPeriod - 1 and above
C12_StatisticsAfterFirstPeriod ==
    (ret.op = "GetStateStatisticsFor" /\ ret.pindexPrev # NULL
        /\ nHeight(ret.pindexPrev) >= ret.bip.nPeriod - 1) =>
        /\ ret.outcome = "returned"
        /\ ret.value = ExpectedStats(ret.pindexPrev, ret.bip)

\* the statistics of a block in the middle of a period, with a signalling block counted
C12_MidPeriod ==
    /\ ret.op = "GetStateStatisticsFor" /\ ret.pindexPrev # NULL
    /\ nHeight(ret.pindexPrev) >= ret.bip.nPeriod - 1
    /\ ret.bip.nPeriod = 2
    /\ ret.value.elapsed = 1
    /\ ret.value.count = 1
    /\ ret.value.possible

\* the aligned pointers of the deployment at or below the aligned ancestor of
\* p: the null pointer and the period-ending blocks up to it
AlignedUpTo(p, bip) ==
    {a \in BlockPtrs : /\ (HeightOf(a) + 1) % bip.nPeriod = 0
                       /\ HeightOf(a) <= HeightOf(AlignedAncestor(p, bip))}

\* C13: StartingHeightOfBlockIndexState returns 0 for the state DEFINED, and
\* otherwise the height after the earliest aligned ancestor a of the unbroken
\* run of periods in the current state S: every period from a to pindexPrev's
\* is in state S and the period before a, if there is one, is not
C13_SinceHeight ==
    ret.op = "VersionBitsStateSinceHeight" =>
        LET S == Recomputed(ret.pindexPrev, ret.bip)
        IN IF S = DEFINED THEN ret.value = 0
           ELSE \E a \in AlignedUpTo(ret.pindexPrev, ret.bip) :
                   /\ ret.value = HeightOf(a) + 1
                   /\ \A b \in AlignedUpTo(ret.pindexPrev, ret.bip) :
                         HeightOf(b) >= HeightOf(a) => Recomputed(b, ret.bip) = S
                   /\ a # NULL =>
                         Recomputed(GetAncestor(a, nHeight(a) - ret.bip.nPeriod), ret.bip) # S

\* C13 happens: the run of STARTED periods spans two aligned blocks and follows
\* a DEFINED period that ends at a block
C13_Witness ==
    /\ ret.op = "VersionBitsStateSinceHeight"
    /\ Recomputed(ret.pindexPrev, ret.bip) = STARTED
    /\ ret.value > ret.bip.nPeriod
    /\ ret.value < HeightOf(AlignedAncestor(ret.pindexPrev, ret.bip)) + 1

\* a BatchWrite call has built its batch and not yet committed it
FlushPending == batch.op = "BatchWrite"

\* a BatchWrite call has returned
FlushDone == ret.op = "BatchWrite"

\* the BatchWrite call in progress or returned: its arguments, its batches,
\* the map as it left it and the database as it found it
TheFlush == IF FlushPending THEN batch ELSE ret.call

\* the txids of the entries of a cache map flagged DIRTY
DirtyTxids(mapCoins) == {t \in DOMAIN mapCoins : IsDirty(mapCoins[t].flags)}

\* the positions of a batch that hold an operation on the key
OpsOn(ops, key) == {i \in DOMAIN ops : ops[i].key = key}

\* C14: the batch of BatchWrite holds, for each DIRTY entry, one operation on
\* ('c', txid), an Erase if the record is fully pruned and a Write of the
\* record otherwise, and no operation for the other entries, whose stored
\* records the flush leaves as they were
C14_BatchWriteSemantics ==
    /\ FlushPending =>
          LET ops == batch.queue[1]
              m == batch.mapCoinsIn
          IN \A t \in Txids :
                IF t \in DirtyTxids(m)
                THEN /\ Cardinality(OpsOn(ops, CoinsKey(t))) = 1
                     /\ \A i \in OpsOn(ops, CoinsKey(t)) :
                           IF IsPruned(m[t].coins) THEN ops[i].type = "Erase"
                           ELSE ops[i].type = "Write" /\ ops[i].value = m[t].coins
                ELSE OpsOn(ops, CoinsKey(t)) = {}
    /\ FlushDone =>
          \A t \in Txids \ DirtyTxids(ret.call.mapCoinsIn) :
              GetCoins(db, t) = GetCoins(ret.call.before, t)

\* C14 happens: a flush erased the stored record of one txid and left the
\* stored record of the other, whose entry was not DIRTY and held another record
C14_Witness ==
    /\ FlushDone /\ ret.value
    /\ \E t, u \in DOMAIN ret.call.mapCoinsIn :
          /\ IsDirty(ret.call.mapCoinsIn[t].flags)
          /\ IsPruned(ret.call.mapCoinsIn[t].coins)
          /\ HaveCoins(ret.call.before, t)
          /\ ~IsDirty(ret.call.mapCoinsIn[u].flags)
          /\ HaveCoins(db, u)
          /\ GetCoins(db, u).coins # ret.call.mapCoinsIn[u].coins

\* C15: no key ('c', txid) of the database holds a fully pruned coins record
C15_NoPrunedRecord ==
    \A t \in Txids : HaveCoins(db, t) => ~IsPruned(db[CoinsKey(t)])

\* C15 happens: a flush with a DIRTY fully pruned entry for a stored txid and a
\* DIRTY partly spent entry for another was committed
C15_Witness ==
    /\ FlushDone /\ ret.value
    /\ \E t, u \in DirtyTxids(ret.call.mapCoinsIn) :
          /\ IsPruned(ret.call.mapCoinsIn[t].coins)
          /\ HaveCoins(ret.call.before, t)
          /\ ~HaveCoins(db, t)
          /\ ret.call.mapCoinsIn[u].coins.vout[1] = OutNull
          /\ HaveCoins(db, u)

\* C16: after a successful flush with a DIRTY fully pruned entry for a txid
\* whose record was stored, HaveCoins is false and GetCoins misses for the txid
C16_PruningRoundTrip ==
    (FlushDone /\ ret.value) =>
        \A t \in DirtyTxids(ret.call.mapCoinsIn) :
            (IsPruned(ret.call.mapCoinsIn[t].coins) /\ HaveCoins(ret.call.before, t)) =>
                /\ ~HaveCoins(db, t)
                /\ ~GetCoins(db, t).found

\* C16 happens: the third flush of the round trip, the stored record had its
\* first output spent and the entry has both spent
C16_Witness ==
    /\ FlushDone /\ ret.value
    /\ ret.call.hashBlock = 2
    /\ GetBestBlock(ret.call.before) = 1
    /\ \E t \in DirtyTxids(ret.call.mapCoinsIn) :
          /\ IsPruned(ret.call.mapCoinsIn[t].coins)
          /\ GetCoins(ret.call.before, t) = [found |-> TRUE, coins |-> [vout |-> <<OutNull, 7>>]]
          /\ ~HaveCoins(db, t)

\* the database with all effects of a flush: the DIRTY records written or
\* erased and the marker set when hashBlock is not 0
FlushEffect(f) ==
    LET m == f.mapCoinsIn
        erased == {CoinsKey(t) : t \in {u \in DirtyTxids(m) : IsPruned(m[u].coins)}}
        written == {CoinsKey(t) : t \in {u \in DirtyTxids(m) : ~IsPruned(m[u].coins)}}
        marker == IF f.hashBlock # 0 THEN {BestBlockKey} ELSE {}
    IN [k \in ((DOMAIN f.before \cup written \cup marker) \ erased) |->
           IF k \in marker THEN f.hashBlock
           ELSE IF k \in written THEN m[k[2]].coins
           ELSE f.before[k]]

\* C17: while a flush is in progress and when it has returned, the database
\* is as the flush found it or has all its effects: every DIRTY record written
\* or erased together with the new marker
C17_FlushAllOrNothing ==
    (FlushPending \/ FlushDone) =>
        \/ db = TheFlush.before
        \/ db = FlushEffect(TheFlush)

\* C17 happens: a reader ran between the building of the batch and its commit
\* and read the old marker, with a new marker and DIRTY entries in the batch
C17_Witness ==
    /\ FlushPending
    /\ ret.op = "GetBestBlock"
    /\ batch.hashBlock # 0
    /\ ret.value # 0
    /\ ret.value # batch.hashBlock
    /\ DirtyTxids(batch.mapCoinsIn) # {}
    /\ db # FlushEffect(batch)

\* C18: the marker is written, in the one batch of the flush, exactly when
\* hashBlock is not 0; after a successful flush GetBestBlock is hashBlock when
\* it is not 0 and what it was before otherwise; it is 0 while the database
\* holds no marker
C18_BestBlockMarker ==
    /\ FlushPending =>
          /\ Len(batch.queue) = 1
          /\ (OpsOn(batch.queue[1], BestBlockKey) # {}) <=> (batch.hashBlock # 0)
    /\ (FlushDone /\ ret.value /\ ret.call.hashBlock # 0) =>
          GetBestBlock(db) = ret.call.hashBlock
    /\ (FlushDone /\ ret.call.hashBlock = 0) =>
          /\ Exists(db, BestBlockKey) <=> Exists(ret.call.before, BestBlockKey)
          /\ GetBestBlock(db) = GetBestBlock(ret.call.before)
    /\ (ret.op = "GetBestBlock" /\ ~Exists(db, BestBlockKey)) => ret.value = 0

\* C18 happens: a flush with hashBlock 0 wrote a record and left the marker 2
C18_Witness ==
    /\ FlushDone /\ ret.value
    /\ ret.call.hashBlock = 0
    /\ db # ret.call.before
    /\ GetBestBlock(db) = 2

\* C19: after a flush that returned true, every DIRTY entry is in the database
\* (its record stored, or no record when fully pruned), the marker is hashBlock
\* (a hashBlock of 0 names no block) and the map passed is empty
C19_FlushOk ==
    (FlushDone /\ ret.value) =>
        /\ \A t \in DirtyTxids(ret.call.mapCoinsIn) :
              IF IsPruned(ret.call.mapCoinsIn[t].coins) THEN ~HaveCoins(db, t)
              ELSE GetCoins(db, t) = [found |-> TRUE, coins |-> ret.call.mapCoinsIn[t].coins]
        /\ ret.call.hashBlock # 0 => GetBestBlock(db) = ret.call.hashBlock
        /\ DOMAIN ret.call.mapCoins = {}

\* C19 happens: a flush of a map with a DIRTY and a clean entry returned true
C19_Witness ==
    /\ FlushDone /\ ret.value
    /\ ret.call.hashBlock # 0
    /\ \E t, u \in DOMAIN ret.call.mapCoinsIn :
          /\ IsDirty(ret.call.mapCoinsIn[t].flags)
          /\ ~IsPruned(ret.call.mapCoinsIn[t].coins)
          /\ ~IsDirty(ret.call.mapCoinsIn[u].flags)
    /\ DOMAIN ret.call.mapCoins = {}

\* the operations that write through one batch
BatchedOps ==
    {"BatchWrite", "WriteTxIndex", "UpdateAddressUnspentIndex", "UpdateSpentIndex",
     "WriteAddressIndex", "EraseAddressIndex"}

\* C20: when the batch write of a batched operation fails, the operation
\* returns false and its database is exactly as the call found it
C20_FailedBatchLeavesStore ==
    (ret.op \in BatchedOps /\ ~ret.engine) =>
        /\ ~ret.value
        /\ StoreOf(ret.op) = ret.call.before

\* C20 happens: UpdateSpentIndex failed with a batch of a write and an erase
\* that would both have changed the spent index
C20_Witness ==
    /\ ret.op = "UpdateSpentIndex"
    /\ ~ret.engine /\ ~ret.value
    /\ Len(ret.call.vect) = 2
    /\ ~IsNull(ret.call.vect[1].second)
    /\ IsNull(ret.call.vect[2].second)
    /\ <<DB_SPENTINDEX, ret.call.vect[1].first>> \notin DOMAIN blocktree
    /\ <<DB_SPENTINDEX, ret.call.vect[2].first>> \in DOMAIN blocktree

----------------------------------------------------------------------------
\* the call of the block tree database that has just returned true
IndexDone(op) == ret.op = op /\ ret.value = TRUE

\* the entry i of a vector of pairs is the last one for its key
LastOfKey(vect, i) == \A j \in (i + 1)..Len(vect) : vect[j].first # vect[i].first

\* the pairs a range read returned, as a set
PairsOf(seq) == {seq[i] : i \in DOMAIN seq}

\* C21: last writer wins within a batch. After UpdateSpentIndex,
\* UpdateAddressUnspentIndex or WriteTxIndex returned true, a read of every
\* key of the vector gives what the last entry for that key asked for: its
\* value, or a miss when that entry was null; whatever the earlier entries for
\* the key were.
C21_LastWriterWins ==
    /\ IndexDone("UpdateSpentIndex") =>
          \A i \in DOMAIN ret.call.vect :
              LET it == ret.call.vect[i]
              IN LastOfKey(ret.call.vect, i) =>
                    ReadSpentIndex(blocktree, it.first) =
                        (IF IsNull(it.second) THEN [found |-> FALSE]
                         ELSE [found |-> TRUE, value |-> it.second])
    /\ IndexDone("UpdateAddressUnspentIndex") =>
          \A i \in DOMAIN ret.call.vect :
              LET it == ret.call.vect[i]
                  read == PairsOf(ReadAddressUnspentIndex(
                              blocktree, it.first.hashBytes, it.first.type).unspentOutputs)
              IN LastOfKey(ret.call.vect, i) =>
                    /\ IsNull(it.second) => \A pair \in read : pair.first # it.first
                    /\ ~IsNull(it.second) =>
                          /\ it \in read
                          /\ \A pair \in read : pair.first = it.first => pair = it
    /\ IndexDone("WriteTxIndex") =>
          \A i \in DOMAIN ret.call.vect :
              LET entry == ret.call.vect[i]
                  found == [found |-> TRUE, pos |-> entry.diskPos]
              IN /\ (\A j \in (i + 1)..Len(ret.call.vect) :
                         ret.call.vect[j].txid # entry.txid)
                    => ReadTxIndex(blocktree, entry.txid) = found
                 /\ (\A j \in (i + 1)..Len(ret.call.vect) :
                         ret.call.vect[j].bareTxid # entry.bareTxid)
                    => ReadTxIndex(blocktree, entry.bareTxid) = found

\* an update of the spent index has returned true whose vector writes a key
\* and then deletes it
C21_Witness ==
    /\ IndexDone("UpdateSpentIndex")
    /\ Len(ret.call.vect) = 2
    /\ ret.call.vect[1].first = ret.call.vect[2].first
    /\ ~IsNull(ret.call.vect[1].second)
    /\ IsNull(ret.call.vect[2].second)
    /\ ReadSpentIndex(blocktree, ret.call.vect[1].first) = [found |-> FALSE]

----------------------------------------------------------------------------
\* the hashes an entry of the vector names, as txid or as bare txid
HashesOf(vect) ==
    {vect[i].txid : i \in DOMAIN vect} \cup {vect[i].bareTxid : i \in DOMAIN vect}

\* a hash that was in no key of the tx index before the call and is named by
\* no entry of its vector is not found after it; the hash of no transaction is
\* never found
TxIndexMisses ==
    /\ ret.op = "WriteTxIndex" =>
          \A h \in TxHashes \ HashesOf(ret.call.vect) :
              ~ReadTxIndex(ret.call.before, h).found => ~ReadTxIndex(blocktree, h).found
    /\ \A h \in TxHashes :
          (\A tx \in Transactions : h # tx.txid /\ h # tx.bareTxid)
              => ~ReadTxIndex(blocktree, h).found

\* C22 as stated: after WriteTxIndex returned true, for every entry (txid,
\* bareTxid, pos) of its vector ReadTxIndex(txid) and ReadTxIndex(bareTxid)
\* both succeed and return pos; a hash never written is not found.
C22_TxIndexDuality ==
    /\ IndexDone("WriteTxIndex") =>
          \A i \in DOMAIN ret.call.vect :
              LET entry == ret.call.vect[i]
                  found == [found |-> TRUE, pos |-> entry.diskPos]
              IN /\ ReadTxIndex(blocktree, entry.txid) = found
                 /\ ReadTxIndex(blocktree, entry.bareTxid) = found
    /\ TxIndexMisses

\* C22, amended: after WriteTxIndex returned true, for every entry (txid,
\* bareTxid, pos) of its vector ReadTxIndex(txid) succeeds and returns pos
\* unless a later entry of the vector has the same txid, and
\* ReadTxIndex(bareTxid) succeeds and returns pos unless a later entry of the
\* vector has the same bareTxid; a hash never written is not found.
C22_TxIndexDualityLastEntry ==
    /\ IndexDone("WriteTxIndex") =>
          \A i \in DOMAIN ret.call.vect :
              LET entry == ret.call.vect[i]
                  later == {ret.call.vect[j] : j \in (i + 1)..Len(ret.call.vect)}
                  found == [found |-> TRUE, pos |-> entry.diskPos]
              IN /\ (\A e \in later : e.txid # entry.txid)
                    => ReadTxIndex(blocktree, entry.txid) = found
                 /\ (\A e \in later : e.bareTxid # entry.bareTxid)
                    => ReadTxIndex(blocktree, entry.bareTxid) = found
    /\ TxIndexMisses

\* a transaction whose bare txid is another hash than its txid has been
\* indexed over an entry of the transaction that shares its bare txid, and
\* both of its hashes are found at its position
C22_Witness ==
    /\ IndexDone("WriteTxIndex")
    /\ Len(ret.call.vect) = 1
    /\ ret.call.vect[1].txid = 2
    /\ ReadTxIndex(ret.call.before, 3).found
    /\ ReadTxIndex(ret.call.before, 3).pos # ret.call.vect[1].diskPos
    /\ ~ReadTxIndex(ret.call.before, 2).found
    /\ ReadTxIndex(blocktree, 2) = ReadTxIndex(blocktree, 3)
    /\ ReadTxIndex(blocktree, 2) = [found |-> TRUE, pos |-> ret.call.vect[1].diskPos]

----------------------------------------------------------------------------
\* the step is the return of a WriteReindexing call
WriteReindexingReturns == batch.op = "WriteReindexing" /\ ret'.op = "WriteReindexing"

\* C23: on a fresh store the key 'R' does not exist; a WriteReindexing call
\* that returns true leaves the key existing exactly when its argument was
\* true, and no other step (a failed WriteReindexing included) changes whether
\* it exists; every ReadReindexing returns true with the flag set to whether
\* the key exists. So the flag read is the argument of the most recent
\* successful WriteReindexing, and false when there was none.
C23_Reindexing ==
    /\ ~Exists(blocktree, ReindexKey)
    /\ [][/\ (WriteReindexingReturns /\ ret'.value)
                => (Exists(blocktree', ReindexKey) <=> batch.vect)
          /\ ~(WriteReindexingReturns /\ ret'.value)
                => (Exists(blocktree', ReindexKey) <=> Exists(blocktree, ReindexKey))
          /\ ret'.op = "ReadReindexing"
                => ret'.value = [ok |-> TRUE, fReindexing |-> Exists(blocktree, ReindexKey)]
         ]_vars

\* ReadReindexing has set the flag to true in a database that holds a block
\* index entry as well
C23_Witness ==
    /\ ret.op = "ReadReindexing"
    /\ ret.value.fReindexing
    /\ \E k \in DOMAIN blocktree : k[1] = "b"

----------------------------------------------------------------------------
\* the stored address index entries of a type and an address hash, within the
\* heights start..end when both are given
AddressIndexOf(store, addressHash, type, start, end) ==
    {[first |-> k[2], second |-> store[k]] :
        k \in {j \in DOMAIN store :
                  /\ j[1] = DB_ADDRESSINDEX
                  /\ j[2].type = type
                  /\ j[2].hashBytes = addressHash
                  /\ (start > 0 /\ end > 0) =>
                        (start <= j[2].blockHeight /\ j[2].blockHeight <= end)}}

\* the pairs of a sequence are in the order of their keys in the database
InKeyOrder(tag, seq) ==
    \A i, j \in DOMAIN seq :
        i < j => BytesLess(SerializeKey(<<tag, seq[i].first>>),
                           SerializeKey(<<tag, seq[j].first>>))

\* C24 as stated: ReadAddressIndex(addressHash, type, start, end) returns
\* exactly the stored entries of the requested type and address hash (with
\* their height in start..end when start > 0 and end > 0), in key order, and
\* no entry stored under another type.
C24_ReadAddressIndex ==
    ret.op = "ReadAddressIndex" =>
        /\ ret.value.ok
        /\ PairsOf(ret.value.addressIndex) =
              AddressIndexOf(blocktree, ret.args.addressHash, ret.args.type,
                             ret.args.start, ret.args.end)
        /\ Len(ret.value.addressIndex) = Cardinality(PairsOf(ret.value.addressIndex))
        /\ InKeyOrder(DB_ADDRESSINDEX, ret.value.addressIndex)
        /\ \A pair \in PairsOf(ret.value.addressIndex) : pair.first.type = ret.args.type

\* what holds of ReadAddressIndex: the result is the one C24 states whenever
\* the database holds no entry of the address hash under a type above the
\* requested one, and end is not given without start
C24_ReadAddressIndexOneType ==
    (/\ ret.op = "ReadAddressIndex"
     /\ ~(ret.args.start = 0 /\ ret.args.end > 0)
     /\ \A k \in DOMAIN blocktree :
           (k[1] = DB_ADDRESSINDEX /\ k[2].hashBytes = ret.args.addressHash)
               => k[2].type <= ret.args.type)
    => /\ ret.value.ok
       /\ PairsOf(ret.value.addressIndex) =
             AddressIndexOf(blocktree, ret.args.addressHash, ret.args.type,
                            ret.args.start, ret.args.end)
       /\ Len(ret.value.addressIndex) = Cardinality(PairsOf(ret.value.addressIndex))
       /\ InKeyOrder(DB_ADDRESSINDEX, ret.value.addressIndex)

\* a read of a height range has returned the one entry of two that lies in it
C24_RangeRead ==
    /\ ret.op = "ReadAddressIndex"
    /\ ret.args.start = 2
    /\ ret.args.end = 2
    /\ Len(ret.value.addressIndex) = 1
    /\ Cardinality(AddressIndexOf(blocktree, ret.args.addressHash, ret.args.type, 0, 0)) = 2

\* a read without heights for one type has returned an entry that is stored
\* under the other type
C24_OtherTypeReturned ==
    /\ ret.op = "ReadAddressIndex"
    /\ ret.args.start = 0
    /\ ret.args.end = 0
    /\ \E pair \in PairsOf(ret.value.addressIndex) : pair.first.type # ret.args.type

----------------------------------------------------------------------------
\* the stored address-unspent entries of a type and an address hash: the keys
\* whose most recent update had a value that is not null (C21, C26)
AddressUnspentOf(store, addressHash, type) ==
    {[first |-> k[2], second |-> store[k]] :
        k \in {j \in DOMAIN store :
                  /\ j[1] = DB_ADDRESSUNSPENTINDEX
                  /\ j[2].type = type
                  /\ j[2].hashBytes = addressHash}}

\* C25 as stated: after any sequence of UpdateAddressUnspentIndex calls,
\* ReadAddressUnspentIndex(addressHash, type) returns exactly the pairs of
\* that type and address hash whose most recent update was not null: no pair
\* whose last update was null, and no pair of another type or address.
C25_ReadAddressUnspentIndex ==
    ret.op = "ReadAddressUnspentIndex" =>
        /\ ret.value.ok
        /\ PairsOf(ret.value.unspentOutputs) =
              AddressUnspentOf(blocktree, ret.args.addressHash, ret.args.type)
        /\ Len(ret.value.unspentOutputs) = Cardinality(PairsOf(ret.value.unspentOutputs))
        /\ \A pair \in PairsOf(ret.value.unspentOutputs) :
              /\ ~IsNull(pair.second)
              /\ pair.first.type = ret.args.type
              /\ pair.first.hashBytes = ret.args.addressHash

\* what holds of ReadAddressUnspentIndex: the result is the one C25 states
\* whenever the database holds no output of the address hash under a type
\* above the requested one; and it never holds a null value or an output of
\* another address hash
C25_ReadAddressUnspentIndexOneType ==
    ret.op = "ReadAddressUnspentIndex" =>
        /\ ret.value.ok
        /\ \A pair \in PairsOf(ret.value.unspentOutputs) :
              ~IsNull(pair.second) /\ pair.first.hashBytes = ret.args.addressHash
        /\ (\A k \in DOMAIN blocktree :
               (k[1] = DB_ADDRESSUNSPENTINDEX /\ k[2].hashBytes = ret.args.addressHash)
                   => k[2].type <= ret.args.type)
           => PairsOf(ret.value.unspentOutputs) =
                 AddressUnspentOf(blocktree, ret.args.addressHash, ret.args.type)

\* a read for one type has returned an output stored under the other type,
\* next to an output of the requested type
C25_OtherTypeReturned ==
    /\ ret.op = "ReadAddressUnspentIndex"
    /\ Len(ret.value.unspentOutputs) = 2
    /\ ret.value.unspentOutputs[1].first.type = ret.args.type
    /\ ret.value.unspentOutputs[2].first.type # ret.args.type

----------------------------------------------------------------------------
\* the calls of UpdateSpentIndex and UpdateAddressUnspentIndex in progress or
\* just returned, with the tag of their keys
TombstoneCalls ==
    {[call |-> c, tag |-> IF c.op = "UpdateSpentIndex" THEN DB_SPENTINDEX
                          ELSE DB_ADDRESSUNSPENTINDEX] :
        c \in {b \in {batch} \cup (IF ret.op \in {"UpdateSpentIndex",
                                                  "UpdateAddressUnspentIndex"}
                                   THEN {ret.call} ELSE {}) :
                  b.op \in {"UpdateSpentIndex", "UpdateAddressUnspentIndex"}}}

\* C26: tombstones. UpdateSpentIndex and UpdateAddressUnspentIndex turn every
\* entry of their vector into one operation of their one batch: an erase of
\* the key when the value IsNull(), a write of the value under the key
\* otherwise. After a call that returned true a point read of a key whose last
\* entry was null misses, and of a key whose last entry had a value returns
\* that value. No null value is ever stored.
C26_Tombstones ==
    /\ \A c \in TombstoneCalls :
          /\ Len(c.call.queue) = 1
          /\ Len(c.call.queue[1]) = Len(c.call.vect)
          /\ \A i \in DOMAIN c.call.vect :
                c.call.queue[1][i] =
                    (IF IsNull(c.call.vect[i].second)
                     THEN [type |-> "Erase", key |-> <<c.tag, c.call.vect[i].first>>]
                     ELSE [type |-> "Write", key |-> <<c.tag, c.call.vect[i].first>>,
                           value |-> c.call.vect[i].second])
    /\ \A c \in TombstoneCalls :
          (ret.op = c.call.op /\ ret.value = TRUE) =>
              \A i \in DOMAIN c.call.vect :
                  LastOfKey(c.call.vect, i) =>
                      LET key == <<c.tag, c.call.vect[i].first>>
                      IN IF IsNull(c.call.vect[i].second)
                         THEN ~Exists(blocktree, key)
                         ELSE Exists(blocktree, key)
                                  /\ blocktree[key] = c.call.vect[i].second
    /\ IndexDone("UpdateSpentIndex") =>
          \A i \in DOMAIN ret.call.vect :
              (Len(ret.call.vect) = 1 /\ IsNull(ret.call.vect[i].second))
                  => ~ReadSpentIndex(blocktree, ret.call.vect[i].first).found
    /\ \A k \in DOMAIN blocktree :
          k[1] \in {DB_SPENTINDEX, DB_ADDRESSUNSPENTINDEX} => ~IsNull(blocktree[k])

\* a null entry has erased a key of the spent index that was stored, and an
\* entry with a value has replaced the value of another key, in one call
C26_Witness ==
    /\ IndexDone("UpdateSpentIndex")
    /\ Len(ret.call.vect) = 2
    /\ ret.call.vect[1].first # ret.call.vect[2].first
    /\ IsNull(ret.call.vect[1].second)
    /\ ReadSpentIndex(ret.call.before, ret.call.vect[1].first).found
    /\ ~ReadSpentIndex(blocktree, ret.call.vect[1].first).found
    /\ ReadSpentIndex(ret.call.before, ret.call.vect[2].first).found
    /\ ReadSpentIndex(blocktree, ret.call.vect[2].first) =
          [found |-> TRUE, value |-> ret.call.vect[2].second]
    /\ ReadSpentIndex(ret.call.before, ret.call.vect[2].first) #
          ReadSpentIndex(blocktree, ret.call.vect[2].first)

----------------------------------------------------------------------------
\* the range read that has just returned ended on a key that does not
\* deserialize as the key type of its index
StoppedOnUndeserializable ==
    /\ ret.op \in {"ReadAddressIndex", "ReadAddressUnspentIndex"}
    /\ ret.value.stop # NoKey
    /\ IF ret.op = "ReadAddressIndex" THEN ~GetAddressIndexKey(ret.value.stop).ok
       ELSE ~GetAddressUnspentKey(ret.value.stop).ok

\* C27 as stated: a range read that reaches a key that cannot be deserialized
\* as the expected key type ends the iteration and returns false; it never
\* returns true after stopping on such a key.
C27_UndeserializableKey == StoppedOnUndeserializable => ~ret.value.ok

\* what holds of the range reads: they return true whatever key they end on
C27_RangeReadsReturnTrue ==
    ret.op \in {"ReadAddressIndex", "ReadAddressUnspentIndex"} => ret.value.ok

\* ReadAddressIndex has taken an entry and ended on the key of a block index
\* entry, which is too short for an address index key
C27_StoppedOnBlockIndexKey ==
    /\ StoppedOnUndeserializable
    /\ ret.value.stop[1] = TagByte["b"]
    /\ Len(ret.value.addressIndex) = 1

----------------------------------------------------------------------------
\* the block index entries the database holds
StoredBlockIndex == {blocktree[k] : k \in {j \in DOMAIN blocktree : j[1] = "b"}}

\* the stored entry fails CheckProofOfWork against its declared bits
FailsProofOfWork(diskindex) == ~CheckProofOfWork(GetBlockHash(diskindex), diskindex.nBits)

\* LoadBlockIndexGuts has just returned
LoadDone == ret.op = "LoadBlockIndexGuts"

\* C28: LoadBlockIndexGuts returns an error exactly when some stored block
\* index entry with height <= LAST_POW_BLOCK fails CheckProofOfWork against
\* its declared bits; an entry above LAST_POW_BLOCK that fails the check does
\* not make the load fail.
C28_LoadChecksProofOfWork ==
    LoadDone =>
        (ret.value = FALSE <=>
            \E diskindex \in StoredBlockIndex :
                diskindex.nHeight <= LAST_POW_BLOCK /\ FailsProofOfWork(diskindex))

\* a load has returned an error on a database whose only entry that fails the
\* check up to LAST_POW_BLOCK is at that height, next to an entry that passes
C28_Witness ==
    /\ LoadDone
    /\ ret.value = FALSE
    /\ \A diskindex \in StoredBlockIndex :
          (diskindex.nHeight <= LAST_POW_BLOCK /\ FailsProofOfWork(diskindex))
              => diskindex.nHeight = LAST_POW_BLOCK
    /\ \E diskindex \in StoredBlockIndex :
          diskindex.nHeight <= LAST_POW_BLOCK /\ ~FailsProofOfWork(diskindex)

\* a load has succeeded on a database that holds an entry above
\* LAST_POW_BLOCK that fails the check, and entries below that pass
C28_AboveLastPowUnchecked ==
    /\ LoadDone
    /\ ret.value = TRUE
    /\ \E diskindex \in StoredBlockIndex :
          diskindex.nHeight > LAST_POW_BLOCK /\ FailsProofOfWork(diskindex)
    /\ \E diskindex \in StoredBlockIndex : diskindex.nHeight <= LAST_POW_BLOCK

----------------------------------------------------------------------------
RECURSIVE PprevEnds(_, _, _)
\* following pprev from the pointer p reaches the null pointer within n steps
PprevEnds(map, p, n) ==
    IF p = 0 THEN TRUE
    ELSE IF n = 0 \/ p \notin DOMAIN map THEN FALSE
    ELSE PprevEnds(map, map[p].pprev, n - 1)

C29_PredecessorNotStored ==
    /\ LoadDone
    /\ ret.value = TRUE
    /\ \E d \in StoredBlockIndex :
          /\ d.hashPrev # 0
          /\ \A g \in StoredBlockIndex : GetBlockHash(g) # d.hashPrev
          /\ mapBlockIndex[d.hashPrev] = NewBlockIndex

----------------------------------------------------------------------------
\* the outputs of the stored coins records that are not null
StoredOutputs(store) ==
    {<<txid, i>> \in Txids \X (1..2) :
        /\ HaveCoins(store, txid)
        /\ i \in DOMAIN store[CoinsKey(txid)].vout
        /\ store[CoinsKey(txid)].vout[i] # OutNull}

RECURSIVE SumOfValues(_, _)
\* the sum of the values of a set of stored outputs
SumOfValues(store, outputs) ==
    IF outputs = {} THEN 0
    ELSE LET o == CHOOSE o \in outputs : TRUE
         IN store[CoinsKey(o[1])].vout[o[2]] + SumOfValues(store, outputs \ {o})

\* the statistics describe the database
StatsDescribe(stats, store) ==
    /\ stats.hashBlock = GetBestBlock(store)
    /\ stats.nTransactions = Cardinality({txid \in Txids : HaveCoins(store, txid)})
    /\ stats.nTransactionOutputs = Cardinality(StoredOutputs(store))
    /\ stats.nTotalAmount = SumOfValues(store, StoredOutputs(store))
    /\ (\A txid \in Txids : ~HaveCoins(store, txid)) =>
          /\ stats.nTransactions = 0
          /\ stats.nTransactionOutputs = 0
          /\ stats.nTotalAmount = 0

\* C30: a call of GetStats returns, with bestHash the stored best-block
\* marker, txCount the number of stored 'c' records, outputCount the number of
\* their outputs that are not null and totalAmount the sum of the values of
\* those outputs; on a database with no coins record the three are zero.
C30_GetStats ==
    ret.op = "GetStats" =>
        /\ ret.outcome.returned
        /\ ret.outcome.value = TRUE
        /\ StatsDescribe(ret.outcome.stats, db)

\* C30, when the call returns: the statistics it returns describe the database
C30_GetStatsReturned ==
    (ret.op = "GetStats" /\ ret.outcome.returned) =>
        /\ ret.outcome.value = TRUE
        /\ StatsDescribe(ret.outcome.stats, db)

\* C30, when the block index has an entry for the best block: the call
\* returns, with statistics that describe the database and the height of
\* that entry
C30_GetStatsBestIndexed ==
    (ret.op = "GetStats" /\ GetBestBlock(db) \in DOMAIN mapBlockIndex) =>
        /\ ret.outcome.returned
        /\ ret.outcome.value = TRUE
        /\ StatsDescribe(ret.outcome.stats, db)
        /\ ret.outcome.stats.nHeight = mapBlockIndex[GetBestBlock(db)].nHeight

\* GetStats has returned the statistics of a database that holds two coins
\* records, one of them with a spent output, and an indexed best block
C30_Witness ==
    /\ ret.op = "GetStats"
    /\ GetBestBlock(db) \in DOMAIN mapBlockIndex
    /\ ret.outcome.returned
    /\ ret.outcome.stats.nTransactions = 2
    /\ ret.outcome.stats.nTransactionOutputs = 3
    /\ ret.outcome.stats.nTotalAmount = 19

\* GetStats has faulted on a database whose coins were all erased under a best
\* block marker, with nothing loaded into the block index
C30_FaultAfterErase ==
    /\ ret.op = "GetStats"
    /\ ~ret.outcome.returned
    /\ GetBestBlock(db) # 0
    /\ \A txid \in Txids : ~HaveCoins(db, txid)
    /\ mapBlockIndex = <<>>

\* GetStats has faulted on the database as it is created
C30_FaultOnNewDatabase ==
    /\ ret.op = "GetStats"
    /\ ~ret.outcome.returned
    /\ db = EmptyStore
    /\ mapBlockIndex = <<>>

----------------------------------------------------------------------------
\* an iteration has been left by boost::thread_interrupted
Interrupted == ret.op \in {"GetStats", "ReadAddressIndex", "ReadAddressUnspentIndex",
                           "LoadBlockIndexGuts"}
               /\ ret.end = "thread_interrupted"

\* an iteration has returned
Returned(op) == ret.op = op /\ ret.end = "returned"

\* seq is the beginning of full
IsPrefix(seq, full) == Len(seq) <= Len(full) /\ seq = SubSeq(full, 1, Len(seq))

\* what the interrupted call has left is a part of what the whole call does
PartOfWhole ==
    CASE ret.op = "ReadAddressIndex" ->
            IsPrefix(ret.result,
                     ReadAddressIndex(blocktree, ret.args.addressHash, ret.args.type,
                                      ret.args.start, ret.args.end).addressIndex)
      [] ret.op = "ReadAddressUnspentIndex" ->
            IsPrefix(ret.result,
                     ReadAddressUnspentIndex(blocktree, ret.args.addressHash,
                                             ret.args.type).unspentOutputs)
      [] ret.op = "LoadBlockIndexGuts" ->
            LET whole == LoadBlockIndexGutsLoop(blocktree, Seek(blocktree, <<TagByte["b"], 0>>),
                                                <<>>, {}).mapBlockIndex
            IN DOMAIN mapBlockIndex \subseteq DOMAIN whole
      [] ret.op = "GetStats" ->
            /\ IsPrefix(ret.result.ss, GetStatsScan(db).ss)
            /\ ret.result.nTransactions <= GetStatsScan(db).nTransactions

C31_LoadInterrupted ==
    /\ Interrupted
    /\ ret.op = "LoadBlockIndexGuts"
    /\ mapBlockIndex # <<>>
    /\ \E d \in StoredBlockIndex : GetBlockHash(d) \notin DOMAIN mapBlockIndex

\* GetStats has been interrupted after the first of two coins records
C31_GetStatsInterrupted ==
    /\ Interrupted
    /\ ret.op = "GetStats"
    /\ ret.result.nTransactions = 1
    /\ \A txid \in Txids : HaveCoins(db, txid)

\* ReadAddressUnspentIndex has been interrupted after its first entry
C31_UnspentInterrupted ==
    /\ Interrupted
    /\ ret.op = "ReadAddressUnspentIndex"
    /\ Len(ret.result) = 1

\* C31, iterations that are not interrupted: step by step they return what
\* the calls return as a whole
C31_StepsAsWhole ==
    /\ Returned("ReadAddressIndex") =>
          LET whole == ReadAddressIndex(blocktree, ret.args.addressHash, ret.args.type,
                                        ret.args.start, ret.args.end)
          IN ret.value = whole.ok /\ ret.result = whole.addressIndex
    /\ Returned("ReadAddressUnspentIndex") =>
          LET whole == ReadAddressUnspentIndex(blocktree, ret.args.addressHash, ret.args.type)
          IN ret.value = whole.ok /\ ret.result = whole.unspentOutputs
    /\ Returned("LoadBlockIndexGuts") =>
          LET whole == LoadBlockIndexGutsLoop(blocktree, Seek(blocktree, <<TagByte["b"], 0>>),
                                              <<>>, {})
          IN /\ ret.value = whole.ok
             /\ mapBlockIndex = whole.mapBlockIndex
             /\ setStakeSeen = whole.setStakeSeen
    /\ (ret.op = "GetStats" /\ ret.end # "thread_interrupted") =>
          \E o \in GetStats(db, mapBlockIndex) :
              /\ o.returned = (ret.end = "returned")
              /\ o.returned => ret.result = o.stats

\* the interruption was requested while the iterator stood on the last key:
\* the loop was left without another interruption point and the call returned
C31_RequestedAfterLastPoll ==
    /\ pcursor # NoIteration
    /\ pcursor.interruption_requested
    /\ pcursor.cursor = {}
    /\ pcursor.op = "ReadAddressIndex"
    /\ Len(pcursor.result) = 2

----------------------------------------------------------------------------
\* the aligned block p is before the start time of the deployment
BeforeStart(p, bip) == p # NULL /\ GetMedianTimePast(p) < bip.nStartTime

\* C32: an aligned block whose medianTimePast is below nStartTime is given
\* the state DEFINED by UpdateCacheState, in the cache and as the state
\* returned for it, whatever the states of the periods before; and the call
\* that gives it this state adds no earlier aligned block (nor the null
\* pointer) to the cache.
C32_BeforeStartDefined ==
    /\ [](\A bip \in vDeployments :
            /\ \A p \in DOMAIN CacheOf(bip) : BeforeStart(p, bip) => CacheOf(bip)[p] = DEFINED
            /\ (RetAtBlock /\ ret.bip = bip /\ BeforeStart(RetIdx, bip)) => ret.value = DEFINED)
    /\ [][\A bip \in vDeployments :
            \A p \in Blocks :
                (/\ BeforeStart(p, bip)
                 /\ p \notin DOMAIN caches[bip.bit]
                 /\ p \in DOMAIN caches'[bip.bit]) =>
                    \A q \in BlockPtrs :
                        (HeightOf(q) < nHeight(p) /\ q \in DOMAIN caches'[bip.bit])
                            => q \in DOMAIN caches[bip.bit]]_vars

\* a call has returned DEFINED for an aligned block before the start time
\* whose predecessor period is cached as STARTED, and the cache holds no
\* entry for the null pointer
C32_Witness ==
    /\ RetAtBlock
    /\ BeforeStart(RetIdx, ret.bip)
    /\ ret.value = DEFINED
    /\ LET before == GetAncestor(RetIdx, nHeight(RetIdx) - ret.bip.nPeriod)
       IN /\ before # NULL
          /\ before \in DOMAIN CacheOf(ret.bip)
          /\ CacheOf(ret.bip)[before] = STARTED
    /\ NULL \notin DOMAIN CacheOf(ret.bip)

----------------------------------------------------------------------------
\* the changes of state from one period to the next
OneStepChanges ==
    {<<DEFINED, STARTED>>, <<DEFINED, FAILED>>, <<STARTED, LOCKED_IN>>,
     <<STARTED, FAILED>>, <<LOCKED_IN, ACTIVE>>}

\* the state stays, or advances by one step
OneStep(before, after) == before = after \/ <<before, after>> \in OneStepChanges

C34_BackToDefined ==
    /\ RetAtBlock
    /\ ret.value = DEFINED
    /\ RetPredState = LOCKED_IN

----------------------------------------------------------------------------
RECURSIVE AncestorsOf(_)
\* p and the blocks below it on its branch, and the null pointer
AncestorsOf(p) == IF p = NULL THEN {NULL} ELSE {p} \cup AncestorsOf(pprev(p))

\* the entries of a cache for the pointers of a set
CacheOn(cache, ptrs) == [k \in DOMAIN cache \cap ptrs |-> cache[k]]

\* C33: on a block index with forks, with one cache that is never cleared,
\* every query returns the state a fresh cache would give, whatever queries
\* on blocks of other branches came before; every cached entry is the state
\* of its block; and a query gives the same state with the cache cut down to
\* the entries of the queried block's own ancestors, and leaves the entries
\* of the other branches as they were.
C33_ForkSafe ==
    /\ [](/\ ret.op = "VersionBitsState" => ret.value = Recomputed(ret.pindexPrev, ret.bip)
          /\ \A bip \in vDeployments :
                \A k \in DOMAIN CacheOf(bip) : CacheOf(bip)[k] = Recomputed(k, bip))
    /\ [][(ret = NoCall /\ ret'.op = "VersionBitsState") =>
            LET bip == ret'.bip
                own == AncestorsOf(ret'.pindexPrev)
                others == BlockPtrs \ own
            IN /\ ret'.value = UpdateCacheState(ret'.pindexPrev,
                                                CacheOn(caches[bip.bit], own), bip).state
               /\ CacheOn(caches'[bip.bit], others) = CacheOn(caches[bip.bit], others)]_vars

\* a query has returned a state for a block of one branch while the cache
\* holds another state for a block of the same height on another branch
C33_Witness ==
    /\ RetAtBlock
    /\ \E k \in DOMAIN CacheOf(ret.bip) \ {NULL} :
          /\ k # RetIdx
          /\ nHeight(k) = nHeight(RetIdx)
          /\ RetIdx \in DOMAIN CacheOf(ret.bip)
          /\ CacheOf(ret.bip)[k] # ret.value
          /\ pprev(k) = pprev(RetIdx)
          /\ pprev(k) # NULL

----------------------------------------------------------------------------
\* C35: BatchWrite has emptied the map it was passed when its batch is built,
\* before the batch is committed; when the commit fails the call returns
\* false with the map empty and the database as the call found it, so that
\* the record of a DIRTY entry is neither in the map nor in the database.
C35_MapEmptiedBeforeCommit ==
    /\ FlushPending => DOMAIN batch.mapCoins = {}
    /\ (FlushDone /\ ~ret.value) =>
          /\ DOMAIN ret.call.mapCoins = {}
          /\ db = ret.call.before
          /\ \A t \in DirtyTxids(ret.call.mapCoinsIn) :
                /\ t \notin DOMAIN ret.call.mapCoins
                /\ GetCoins(db, t) = GetCoins(ret.call.before, t)

\* a flush has failed whose map held a DIRTY record that the database does
\* not hold: the record is lost
C35_Witness ==
    /\ FlushDone
    /\ ~ret.value
    /\ DOMAIN ret.call.mapCoins = {}
    /\ \E t \in DirtyTxids(ret.call.mapCoinsIn) :
          /\ ~IsPruned(ret.call.mapCoinsIn[t].coins)
          /\ GetCoins(db, t) # [found |-> TRUE, coins |-> ret.call.mapCoinsIn[t].coins]

\* the batch of a flush is built and not yet committed, and the map that held
\* DIRTY entries is already empty
C35_EmptyBeforeCommit ==
    /\ FlushPending
    /\ db = batch.before
    /\ DirtyTxids(batch.mapCoinsIn) # {}
    /\ DOMAIN batch.mapCoins = {}

----------------------------------------------------------------------------
\* C36: whenever GetStateStatisticsFor returns for a block,
\* 0 <= count <= elapsed <= nPeriod - 1, and elapsed and count are 0 for the
\* last block of a period; for the null pointer it returns the period and the
\* threshold with elapsed 0, count 0 and possible false.
C36_StatisticsBounds ==
    (ret.op = "GetStateStatisticsFor" /\ ret.outcome = "returned") =>
        IF ret.pindexPrev = NULL
        THEN ret.value = [period |-> ret.bip.nPeriod, threshold |-> ret.bip.threshold,
                          elapsed |-> 0, count |-> 0, possible |-> FALSE]
        ELSE /\ 0 <= ret.value.count
             /\ ret.value.count <= ret.value.elapsed
             /\ ret.value.elapsed <= ret.bip.nPeriod - 1
             /\ (nHeight(ret.pindexPrev) + 1) % ret.bip.nPeriod = 0 =>
                   (ret.value.elapsed = 0 /\ ret.value.count = 0)

\* the statistics of a block in the middle of a period after the first were
\* returned, with one block elapsed and counted
C36_Witness ==
    /\ ret.op = "GetStateStatisticsFor"
    /\ ret.outcome = "returned"
    /\ ret.pindexPrev # NULL
    /\ nHeight(ret.pindexPrev) >= ret.bip.nPeriod
    /\ ret.value.elapsed = ret.bip.nPeriod - 1
    /\ ret.value.count = 1
    /\ ret.value.elapsed = 1

\* the statistics of the last block of a period were returned
C36_LastBlockOfPeriod ==
    /\ ret.op = "GetStateStatisticsFor"
    /\ ret.outcome = "returned"
    /\ ret.pindexPrev # NULL
    /\ ret.bip.nPeriod = 2
    /\ (nHeight(ret.pindexPrev) + 1) % ret.bip.nPeriod = 0
    /\ Condition(ret.pindexPrev, ret.bip)

\* the statistics of the null pointer were returned
C36_NullBlock ==
    /\ ret.op = "GetStateStatisticsFor"
    /\ ret.outcome = "returned"
    /\ ret.pindexPrev = NULL

----------------------------------------------------------------------------
\* C37: StartingHeightOfBlockIndexState returns 0 exactly when the deployment
\* is ALWAYS_ACTIVE or the state is DEFINED; otherwise the result is a positive
\* multiple of nPeriod, at most the height of pindexPrev plus 1, and the
\* aligned ancestor the call reads through is a block.
C37_SinceHeightRange ==
    ret.op = "VersionBitsStateSinceHeight" =>
        LET zero == \/ ret.bip.nStartTime = ALWAYS_ACTIVE
                    \/ Recomputed(ret.pindexPrev, ret.bip) = DEFINED
        IN /\ (ret.value = 0) <=> zero
           /\ ~zero =>
                 /\ ret.pindexPrev # NULL
                 /\ AlignedAncestor(ret.pindexPrev, ret.bip) # NULL
                 /\ ret.value > 0
                 /\ ret.value % ret.bip.nPeriod = 0
                 /\ ret.value <= nHeight(ret.pindexPrev) + 1

\* the start of a state other than DEFINED was returned for a block that does
\* not end a period: a multiple of the two-block period below the block's
\* height plus 1
C37_Witness ==
    /\ ret.op = "VersionBitsStateSinceHeight"
    /\ ret.bip.nStartTime # ALWAYS_ACTIVE
    /\ Recomputed(ret.pindexPrev, ret.bip) # DEFINED
    /\ ret.bip.nPeriod = 2
    /\ (nHeight(ret.pindexPrev) + 1) % ret.bip.nPeriod # 0
    /\ ret.value = 2
    /\ nHeight(ret.pindexPrev) + 1 > ret.value

\* 0 was returned for an ALWAYS_ACTIVE deployment and a block
C37_AlwaysActiveZero ==
    /\ ret.op = "VersionBitsStateSinceHeight"
    /\ ret.bip.nStartTime = ALWAYS_ACTIVE
    /\ ret.pindexPrev # NULL
    /\ ret.value = 0

\* 0 was returned for the state DEFINED of a block of a later period
C37_DefinedZero ==
    /\ ret.op = "VersionBitsStateSinceHeight"
    /\ ret.bip.nStartTime # ALWAYS_ACTIVE
    /\ ret.pindexPrev # NULL
    /\ AlignedAncestor(ret.pindexPrev, ret.bip) # NULL
    /\ Recomputed(ret.pindexPrev, ret.bip) = DEFINED
    /\ ret.value = 0

----------------------------------------------------------------------------
\* the entries a read has returned that are of the type it asked for
ReturnedOfType == {pair \in PairsOf(ret.value.addressIndex) : pair.first.type = ret.args.type}

\* C38: ReadAddressIndex applies the lower height bound only when start > 0
\* and end > 0. With start > 0 and end <= 0 it reads from the first entry of
\* (type, addressHash) and returns the entries of every height, those below
\* start included; with end > 0 no entry above end is returned, whatever start
\* is, and with both given no entry of the requested type is below start.
C38_HeightBounds ==
    ret.op = "ReadAddressIndex" =>
        /\ (ret.args.start > 0 /\ ret.args.end <= 0) =>
              ReturnedOfType = AddressIndexOf(blocktree, ret.args.addressHash,
                                              ret.args.type, 0, 0)
        /\ ret.args.end > 0 =>
              /\ \A pair \in PairsOf(ret.value.addressIndex) :
                    pair.first.blockHeight <= ret.args.end
              /\ ReturnedOfType =
                    {pair \in AddressIndexOf(blocktree, ret.args.addressHash,
                                             ret.args.type, ret.args.start, ret.args.end) :
                        pair.first.blockHeight <= ret.args.end}
        /\ (ret.args.start > 0 /\ ret.args.end > 0) =>
              \A pair \in ReturnedOfType : pair.first.blockHeight >= ret.args.start

\* a read with start 2 and no end has returned an entry of height 1
C38_Witness ==
    /\ ret.op = "ReadAddressIndex"
    /\ ret.args.start = 2
    /\ ret.args.end = 0
    /\ \E pair \in ReturnedOfType : pair.first.blockHeight < ret.args.start

\* a read with end 1 and no start has left out the stored entry of height 2
C38_UpperBoundWithoutStart ==
    /\ ret.op = "ReadAddressIndex"
    /\ ret.args.start = 0
    /\ ret.args.end = 1
    /\ Len(ret.value.addressIndex) = 1
    /\ \E pair \in AddressIndexOf(blocktree, ret.args.addressHash, ret.args.type, 0, 0) :
          pair.first.blockHeight = 2

----------------------------------------------------------------------------
\* C39 as stated: in every state in which GetStats is called, the lookup of
\* the block-index entry of the stored best-block marker is valid: the call
\* returns, and the nHeight it reports is the height of the entry whose hash
\* is the marker.
C39_LookupValid ==
    ret.op = "GetStats" =>
        /\ ret.outcome.returned
        /\ GetBestBlock(db) \in DOMAIN mapBlockIndex =>
              ret.outcome.stats.nHeight = mapBlockIndex[GetBestBlock(db)].nHeight

\* GetStats has faulted on a database whose best-block marker names a hash
\* that the loaded block index, which is not empty, has no entry for
C39_MarkerNotIndexed ==
    /\ ret.op = "GetStats"
    /\ ~ret.outcome.returned
    /\ GetBestBlock(db) # 0
    /\ mapBlockIndex # <<>>
    /\ GetBestBlock(db) \notin DOMAIN mapBlockIndex

\* GetStats has returned a height that no entry of the block index has, on a
\* database with no best-block marker
C39_StrayHeight ==
    /\ ret.op = "GetStats"
    /\ ret.outcome.returned
    /\ GetBestBlock(db) = 0
    /\ \A h \in DOMAIN mapBlockIndex : mapBlockIndex[h].nHeight # ret.outcome.stats.nHeight

----------------------------------------------------------------------------
\* a stored block index entry on which LoadBlockIndexGuts ends with an error:
\* its value cannot be read, or its proof of work fails up to LAST_POW_BLOCK
LoadFailsOn(k) ==
    \/ ~Unserializes(blocktree[k])
    \/ /\ blocktree[k].nHeight <= LAST_POW_BLOCK
       /\ FailsProofOfWork(blocktree[k])

\* the key k is before the key j in the order of the database
KeyBefore(k, j) == BytesLess(SerializeKey(k), SerializeKey(j))

\* the 'b' records a load processes: those with no failing record before them
ProcessedKeys == {k \in BlockIndexKeys : \A j \in BlockIndexKeys : KeyBefore(j, k) => ~LoadFailsOn(j)}

\* the hashes the processed records intern: their own, and those of the
\* predecessor and the successor they name; a record that cannot be read
\* interns nothing
InternedBy(keys) ==
    UNION {{GetBlockHash(blocktree[k]), blocktree[k].hashPrev, blocktree[k].hashNext} :
              k \in {j \in keys : Unserializes(blocktree[j])}} \ {0}

\* the stakes of the proof-of-stake records among the keys
StakesOf(keys) ==
    {<<blocktree[k].prevoutStake, blocktree[k].nStakeTime>> :
        k \in {j \in keys : IsProofOfStake(blocktree[j])}}

\* C40: LoadBlockIndexGuts processes the 'b' records only, from the smallest
\* 'b' key on, and returns true when none of them fails, whatever keys of
\* other tags the database holds; when a record fails, the call returns false
\* and the entries interned for the records up to the failing one, and the
\* stakes of the records before it, remain in mapBlockIndex and setStakeSeen.
C40_LoadNotRolledBack ==
    LoadDone =>
        /\ ret.value = (\A k \in BlockIndexKeys : ~LoadFailsOn(k))
        /\ DOMAIN mapBlockIndex = InternedBy(ProcessedKeys)
        /\ \A k \in ProcessedKeys :
              Unserializes(blocktree[k]) =>
                  mapBlockIndex[GetBlockHash(blocktree[k])].nHeight = blocktree[k].nHeight
        /\ setStakeSeen = StakesOf({k \in ProcessedKeys : ~LoadFailsOn(k)})

\* a load has failed on the second of two records, and the entry and the
\* stake of the first, a proof-of-stake block, are in the maps, in a database
\* that holds keys of other tags before and after the 'b' keys
C40_Witness ==
    /\ LoadDone
    /\ ret.value = FALSE
    /\ \E k, j \in BlockIndexKeys :
          /\ KeyBefore(k, j)
          /\ ~LoadFailsOn(k)
          /\ LoadFailsOn(j)
          /\ IsProofOfStake(blocktree[k])
          /\ GetBlockHash(blocktree[k]) \in DOMAIN mapBlockIndex
          /\ <<blocktree[k].prevoutStake, blocktree[k].nStakeTime>> \in setStakeSeen
    /\ \E k \in DOMAIN blocktree : k[1] = DB_TXINDEX
    /\ \E k \in DOMAIN blocktree : k[1] = DB_BARETXIDINDEX

\* a load has failed on a record that cannot be read, after a record it has
\* interned
C40_TruncatedRecord ==
    /\ LoadDone
    /\ ret.value = FALSE
    /\ \E k, j \in BlockIndexKeys :
          /\ KeyBefore(k, j)
          /\ ~LoadFailsOn(k)
          /\ ~Unserializes(blocktree[j])
          /\ GetBlockHash(blocktree[k]) \in DOMAIN mapBlockIndex

\* a load has succeeded on two records and ended at a key 't', with nothing
\* interned for the tx index
C40_StopsAtOtherTag ==
    /\ LoadDone
    /\ ret.value = TRUE
    /\ Cardinality(BlockIndexKeys) = 2
    /\ \E k \in DOMAIN blocktree : k[1] = DB_TXINDEX
    /\ Cardinality(DOMAIN mapBlockIndex) >= 2

====
